---------------------------- MODULE Spec2Model ----------------------------
(***************************************************************************)
(* A model of pid2bib (src/pid2bib.py): the extraction of a Reference from *)
(* a PubMed XML document (parseXML), its serialization to BibTeX           *)
(* (createBibtexContent), the Unicode-to-LaTeX escaper                     *)
(* (sanitizeBibtexField), the file-name sanitizer (sanitizeFileName), and   *)
(* the command line around them: main, pmid2bibtex and doi2bibtex.         *)
(*                                                                         *)
(* A Python str is a sequence of code points; a code point is written as   *)
(* the one-character string it is ("a", "\\", "{"), or as "U+XXXX" when it *)
(* is not ASCII (and for the grave accent, "U+0060").  The empty str ''   *)
(* is << >>.                                                               *)
(*                                                                         *)
(* Spec is one run of main.  SpecEscape and SpecFileName call the two      *)
(* sanitizers directly, and SpecLibrary calls parseXML,                    *)
(* createBibtexContent and sanitizeFileName as an importing program does,  *)
(* with the list objects of the References kept by identity.               *)
(***************************************************************************)
EXTENDS Integers, Sequences, FiniteSets, TLC

VARIABLES
    pc,              \* position of the running call
    argv,            \* sys.argv, the script name first
    pmid,            \* the argument of pmid2bibtex
    doi,             \* the argument of doi2bibtex
    title,           \* the title that getTitle found
    xml,             \* what fetchXML returned
    reference,       \* the Reference built by parseXML
    error,           \* the exception that ended the conversion, '' if none
    bibtex_content,  \* the text returned by createBibtexContent
    filename,        \* the name of the output file
    files,           \* the files of the current directory written so far
    stdout,          \* the messages printed so far
    text,            \* argument of a direct call of one of the sanitizers
    cut,             \* where the argument is split into a + b
    escaped,         \* results of the sanitizeBibtexField calls
    fileName,        \* result of the sanitizeFileName call
    lists,           \* the list objects made so far, by identity
    references,      \* the Reference objects that calls of parseXML returned
    contents         \* the texts that calls of createBibtexContent returned

vars == <<pc, argv, pmid, doi, title, xml, reference, error, bibtex_content,
          filename, files, stdout, text, cut, escaped, fileName,
          lists, references, contents>>

----------------------------------------------------------------------------
(* Python values *)

\* Python's None, where a str is expected: a value that is no str.
None == <<"<None>">>

\* Evaluating a str expression raised TypeError (None + str, write(None),
\* iterating None).
TypeError == <<"<TypeError>">>

IsStr(v) == v /= None /\ v /= TypeError

\* A call either returns a value or raises; exc = "" means it returned.
Return(v) == [exc |-> "", val |-> v]
Raise(e) == [exc |-> e, val |-> << >>]

\* a + b on str operands: TypeError when an operand is None.
Plus(a, b) == IF IsStr(a) /\ IsStr(b) THEN a \o b ELSE TypeError

\* d.get(k, default)
get(d, k, default) == IF k \in DOMAIN d THEN d[k] ELSE default

\* sep.join(parts), parts a sequence of str (computed by halves)
RECURSIVE join(_, _)
join(sep, parts) ==
    IF Len(parts) = 0 THEN << >>
    ELSE IF Len(parts) = 1 THEN parts[1]
    ELSE LET m == Len(parts) \div 2
         IN  join(sep, SubSeq(parts, 1, m)) \o sep
             \o join(sep, SubSeq(parts, m + 1, Len(parts)))

\* text.translate(table): table maps a code point to its replacement str
\* ('' for None, i.e. removal); other code points are kept.
translate(s, table) ==
    join(<< >>, [i \in 1..Len(s) |-> get(table, s[i], <<s[i]>>)])

\* All str of at most n code points over an alphabet.
RECURSIVE StrUpTo(_, _)
StrUpTo(alphabet, n) ==
    IF n = 0 THEN {<< >>}
    ELSE LET shorter == StrUpTo(alphabet, n - 1)
         IN  shorter \cup {Append(s, c) : s \in shorter, c \in alphabet}

----------------------------------------------------------------------------
(* sanitizeBibtexField: the Escape Table and the escaper *)

\* The entries of the uni2tex mapping for the code points the model uses:
\* every ASCII key of the table, and the non-ASCII keys U+00A0, U+00E1,
\* U+00E9, U+0301, U+2019 and U+FB01.  No other code point that occurs in
\* the model (letters, digits, space and , . : / = " ( ) [ ] ? @) is a key.
uni2tex_ascii ==
    ("#" :> <<"{", "\\", "#", "}">>) @@ ("$" :> <<"{", "\\", "t", "e", "x", "t", "d", "o", "l", "l", "a", "r", "}">>) @@ ("%" :> <<"{", "\\", "%", "}">>) @@
    ("&" :> <<"{", "\\", "&", "}">>) @@ ("'" :> <<"{", "\\", "t", "e", "x", "t", "q", "u", "o", "t", "e", "s", "i", "n", "g", "l", "e", "}">>) @@ ("*" :> <<"{", "\\", "a", "s", "t", "}">>) @@
    ("+" :> <<"$", "\\", "m", "a", "t", "h", "p", "l", "u", "s", "$">>) @@ ("-" :> <<"-">>) @@ (";" :> <<"$", "\\", "m", "a", "t", "h", "s", "e", "m", "i", "c", "o", "l", "o", "n", "$">>) @@
    ("<" :> <<"$", "\\", "l", "e", "s", "s", "$">>) @@ (">" :> <<"$", "\\", "g", "r", "e", "a", "t", "e", "r", "$">>) @@
    ("\\" :> <<"{", "\\", "t", "e", "x", "t", "b", "a", "c", "k", "s", "l", "a", "s", "h", "}">>) @@ ("^" :> <<"{", "\\", "^", "{", "}", "}">>) @@ ("_" :> <<"{", "\\", "_", "}">>) @@
    ("U+0060" :> <<"{", "\\", "t", "e", "x", "t", "a", "s", "c", "i", "i", "g", "r", "a", "v", "e", "}">>) @@ ("{" :> <<"$", "\\", "l", "b", "r", "a", "c", "e", "$">>) @@
    ("|" :> <<"$", "\\", "v", "e", "r", "t", "$">>) @@ ("}" :> <<"$", "\\", "r", "b", "r", "a", "c", "e", "$">>) @@
    ("~" :> <<"{", "\\", "t", "e", "x", "t", "a", "s", "c", "i", "i", "t", "i", "l", "d", "e", "}">>)

uni2tex_other ==
    ("U+00A0" :> <<"~">>) @@ ("U+00E1" :> <<"{", "\\", "'", "{", "a", "}", "}">>) @@ ("U+00E9" :> <<"{", "\\", "'", "{", "e", "}", "}">>) @@
    ("U+0301" :> <<"{", "\\", "'", "}">>) @@ ("U+2019" :> <<"'">>) @@ ("U+FB01" :> <<"f", "i">>)

\* A table in which the LaTeX syntax characters \ { } are not keys.
uni2tex_noSyntaxKeys ==
    [c \in (DOMAIN uni2tex_ascii \cup DOMAIN uni2tex_other) \ {"\\", "{", "}"}
        |-> (uni2tex_ascii @@ uni2tex_other)[c]]

uni2tex == uni2tex_ascii @@ uni2tex_other

\* An escaper that drops the code points the table has no entry for.
sanitizeBibtexField_dropsUnmapped(s) ==
    IF IsStr(s)
    THEN join(<< >>, [i \in 1..Len(s) |-> get(uni2tex, s[i], << >>)])
    ELSE TypeError

\* An escaper that works on combining sequences: a base letter followed by
\* a combining acute accent is looked up as the precomposed letter.
RECURSIVE Precompose(_)
Precompose(s) ==
    IF Len(s) < 2 THEN s
    ELSE IF s[1] = "a" /\ s[2] = "U+0301"
         THEN <<"U+00E1">> \o Precompose(SubSeq(s, 3, Len(s)))
         ELSE <<s[1]>> \o Precompose(Tail(s))

sanitizeBibtexField_graphemes(s) ==
    IF IsStr(s)
    THEN LET t == Precompose(s)
         IN  join(<< >>, [i \in 1..Len(t) |-> get(uni2tex, t[i], <<t[i]>>)])
    ELSE TypeError

\* ''.join(map(lambda c: uni2tex.get(c, c), text)); map over None raises
\* TypeError.
sanitizeBibtexField(s) ==
    IF IsStr(s)
    THEN join(<< >>, [i \in 1..Len(s) |-> get(uni2tex, s[i], <<s[i]>>)])
    ELSE TypeError

----------------------------------------------------------------------------
(* sanitizeFileName *)

\* The translation table of sanitizeFileName: { } [ ] " ? map to None
\* (removed), / maps to a space.
fileNameTable ==
    ("{" :> << >>) @@ ("}" :> << >>) @@ ("[" :> << >>) @@ ("]" :> << >>) @@
    ("\"" :> << >>) @@ ("/" :> <<" ">>) @@ ("?" :> << >>)

\* result[-1] of the empty str raises IndexError; None has no translate.
sanitizeFileName(s) ==
    IF ~IsStr(s) THEN Raise("AttributeError")
    ELSE LET result == translate(s, fileNameTable)
         IN  IF Len(result) = 0 THEN Raise("IndexError")
             ELSE IF result[Len(result)] = "."
                  THEN Return(SubSeq(result, 1, Len(result) - 1))
                  ELSE Return(result)

----------------------------------------------------------------------------
(* Values of variables not yet assigned, or unused by a specification *)

Idle == <<"<idle>">>

NoCalls == [left |-> None, right |-> None, whole |-> None, again |-> None]

\* fileName before sanitizeFileName was called.
NoResult == [exc |-> "<idle>", val |-> << >>]

----------------------------------------------------------------------------
(* The XML tree that xml.etree.ElementTree.fromstring builds *)

\* An Element: its tag, its attributes (a function of the attribute names),
\* its text (None when it has none) and its children in document order.
Element(tag, attrib, txt, children) ==
    [tag |-> tag, attrib |-> attrib, text |-> txt, children |-> children]

\* The None that find returns when no child has the tag.
NoneElem == Element("<None>", << >>, None, << >>)

\* elem.find(tag): the first child with the tag, or None
find(elem, tag) ==
    LET hits == SelectSeq(elem.children, LAMBDA c : c.tag = tag)
    IN  IF Len(hits) = 0 THEN NoneElem ELSE hits[1]

\* elem.findall(tag): the children with the tag, in document order
findall(elem, tag) == SelectSeq(elem.children, LAMBDA c : c.tag = tag)

\* currElem.text if (currElem is not None) else ''
textOrEmpty(currElem) == IF currElem /= NoneElem THEN currElem.text ELSE << >>

\* What fetchXML hands to parseXML: the text of an XML document (kept as the
\* tree it parses to), a text that is no XML, or None.
Document(root) == [kind |-> "xml", root |-> root]
Malformed == [kind |-> "malformed", root |-> NoneElem]
NoDocument == [kind |-> "None", root |-> NoneElem]

----------------------------------------------------------------------------
(* Author and Reference *)

Author(lastName, foreName, initials, institution) ==
    [lastName |-> lastName, foreName |-> foreName,
     initials |-> initials, institution |-> institution]

\* Reference.__init__
Reference(p) ==
    [pmid |-> p, title |-> << >>, authors |-> << >>, journal |-> << >>,
     volume |-> << >>, issue |-> << >>, startPage |-> << >>,
     endPage |-> << >>, doi |-> << >>, pbyear |-> << >>, pbmonth |-> << >>,
     issn |-> << >>, journalAb |-> << >>, copyright |-> << >>,
     article_url |-> << >>, abstract |-> << >>]

\* xml before fetchXML returned, reference before parseXML returned.
NotFetched == [kind |-> "<idle>", root |-> NoneElem]
NoReference == Reference(None)

PipelineIdle ==
    /\ argv = <<Idle>> /\ pmid = Idle /\ doi = Idle /\ title = Idle
    /\ xml = NotFetched /\ reference = NoReference
    /\ error = "" /\ bibtex_content = Idle
    /\ filename = Idle /\ files = {} /\ stdout = << >>
    /\ lists = << >> /\ references = << >> /\ contents = << >>

----------------------------------------------------------------------------
(* parseXML *)

\* f'{value}': a str is itself, None is formatted as 'None'
Format(v) == IF v = None THEN <<"N", "o", "n", "e">> ELSE v

\* A URL that ignores the DOI.
articleUrl_alwaysPubmed(refDoi, p) ==
    <<"h", "t", "t", "p", "s", ":", "/", "/", "p", "u", "b", "m", "e", "d", ".", "n", "c", "b", "i", ".", "n", "l", "m", ".", "n", "i", "h", ".", "g", "o", "v", "/">> \o Format(p) \o <<"/">>

\* ref.article_url, from ref.doi and pmid
articleUrl(refDoi, p) ==
    IF refDoi = << >>
    THEN <<"h", "t", "t", "p", "s", ":", "/", "/", "p", "u", "b", "m", "e", "d", ".", "n", "c", "b", "i", ".", "n", "l", "m", ".", "n", "i", "h", ".", "g", "o", "v", "/">> \o Format(p) \o <<"/">>
    ELSE <<"h", "t", "t", "p", "s", ":", "/", "/", "d", "o", "i", ".", "o", "r", "g", "/">> \o Format(refDoi)

\* A loop that keeps the first identifier tagged as DOI.
RECURSIVE scanArticleIds_first(_, _)
scanArticleIds_first(ids, refDoi) ==
    IF Len(ids) = 0 THEN refDoi
    ELSE scanArticleIds_first(Tail(ids),
                              IF Head(ids).attrib["IdType"] = "doi" /\ refDoi = << >>
                              THEN Head(ids).text ELSE refDoi)

\* The loop over the ArticleIdList: ref.doi after the identifiers ids,
\* starting from refDoi.
RECURSIVE scanArticleIds(_, _)
scanArticleIds(ids, refDoi) ==
    IF Len(ids) = 0 THEN refDoi
    ELSE scanArticleIds(Tail(ids),
                        IF Head(ids).attrib["IdType"] = "doi"
                        THEN Head(ids).text ELSE refDoi)

\* A choice of record that takes the last entry of the list.
chosenArticle_last(pubmedArticles) == pubmedArticles[Len(pubmedArticles)]

\* pubmedArticle = pubmedArticles[0]
chosenArticle(pubmedArticles) == pubmedArticles[1]

\* The body of the loop over the AuthorList: the Author of one entry.
parseAuthor(authorElem) ==
    LET affiElem == find(authorElem, "AffiliationInfo")
    IN  Author(textOrEmpty(find(authorElem, "LastName")),
               textOrEmpty(find(authorElem, "ForeName")),
               textOrEmpty(find(authorElem, "Initials")),
               IF affiElem /= NoneElem
               THEN textOrEmpty(find(affiElem, "Affiliation"))
               ELSE << >>)

\* An author loop that puts each new Author in front of the list.
parseAuthors_prepend(authorList) ==
    [i \in 1..Len(authorList.children) |->
        parseAuthor(authorList.children[Len(authorList.children) + 1 - i])]

\* ref.authors after the loop over the AuthorList
parseAuthors(authorList) ==
    [i \in 1..Len(authorList.children) |-> parseAuthor(authorList.children[i])]

parseXML(p, x) ==
    IF x.kind = "None" THEN Raise("TypeError")          \* fromstring(None)
    ELSE IF x.kind = "malformed" THEN Raise("ParseError")
    ELSE
    LET pubmedArticles == findall(x.root, "PubmedArticle")
    IN
    IF Len(pubmedArticles) = 0
    THEN Raise("Empty result for the given pubmed id")
    ELSE
    LET pubmedArticle == chosenArticle(pubmedArticles)
        pubmedData == find(pubmedArticle, "PubmedData")
        articleIdList == find(pubmedData, "ArticleIdList")
        refDoi == scanArticleIds(articleIdList.children, << >>)
        medlineCitation == find(pubmedArticle, "MedlineCitation")
        article == find(medlineCitation, "Article")
        absElem == find(article, "Abstract")
        abstractText == textOrEmpty(find(absElem, "AbstractText"))
        journalElement == find(article, "Journal")
        jissueElem == find(journalElement, "JournalIssue")
        dateElem == find(jissueElem, "PubDate")
        pagElem == find(article, "Pagination")
        authorList == find(article, "AuthorList")
    IN
    IF pubmedData = NoneElem THEN Raise("AttributeError")   \* None.find
    ELSE IF articleIdList = NoneElem THEN Raise("TypeError") \* for ... in None
    ELSE IF \E i \in 1..Len(articleIdList.children) :
                "IdType" \notin DOMAIN articleIdList.children[i].attrib
         THEN Raise("KeyError")
    ELSE IF medlineCitation = NoneElem \/ article = NoneElem
         THEN Raise("AttributeError")                        \* None.find
    ELSE IF journalElement /= NoneElem /\ jissueElem = NoneElem
         THEN Raise("AttributeError")                        \* jissueElem.find
    ELSE IF authorList = NoneElem THEN Raise("TypeError")    \* for ... in None
    ELSE Return(
        [pmid |-> p,
         doi |-> refDoi,
         article_url |-> articleUrl(refDoi, p),
         title |-> textOrEmpty(find(article, "ArticleTitle")),
         abstract |-> IF absElem /= NoneElem /\ abstractText /= None
                      THEN abstractText ELSE << >>,
         copyright |-> IF absElem /= NoneElem
                       THEN textOrEmpty(find(absElem, "CopyrightInformation"))
                       ELSE << >>,
         journal |-> IF journalElement /= NoneElem
                     THEN textOrEmpty(find(journalElement, "Title")) ELSE << >>,
         issn |-> IF journalElement /= NoneElem
                  THEN textOrEmpty(find(journalElement, "ISSN")) ELSE << >>,
         journalAb |-> IF journalElement /= NoneElem
                       THEN textOrEmpty(find(journalElement, "ISOAbbreviation"))
                       ELSE << >>,
         volume |-> IF journalElement /= NoneElem
                    THEN textOrEmpty(find(jissueElem, "Volume")) ELSE << >>,
         issue |-> IF journalElement /= NoneElem
                   THEN textOrEmpty(find(jissueElem, "Issue")) ELSE << >>,
         pbyear |-> IF journalElement /= NoneElem /\ dateElem /= NoneElem
                    THEN textOrEmpty(find(dateElem, "Year")) ELSE << >>,
         pbmonth |-> IF journalElement /= NoneElem /\ dateElem /= NoneElem
                     THEN textOrEmpty(find(dateElem, "Month")) ELSE << >>,
         startPage |-> IF pagElem /= NoneElem
                       THEN textOrEmpty(find(pagElem, "StartPage")) ELSE << >>,
         endPage |-> IF pagElem /= NoneElem
                     THEN textOrEmpty(find(pagElem, "EndPage")) ELSE << >>,
         authors |-> parseAuthors(authorList)])

----------------------------------------------------------------------------
(* createBibtexContent *)

\* A StringIO is the sequence of the values written to it.
\* stringBuffer.write(value)
write(buffer, value) == Append(buffer, value)

\* stringBuffer.getvalue(); a write of None has raised TypeError
getvalue(buffer) ==
    IF \E i \in 1..Len(buffer) : ~IsStr(buffer[i])
    THEN TypeError
    ELSE join(<< >>, buffer)

\* A field line without the comma that ends it.
appendFormattedField_noComma(stringBuffer, name, value) ==
    stringBuffer \o <<<<" ", " ", " ">> \o name \o <<" ", "=", " ", "\"">>, value, <<"\"", "\n">>>>

\* appendFormattedField(stringBuffer, name, value): three writes
appendFormattedField(stringBuffer, name, value) ==
    stringBuffer \o <<<<" ", " ", " ">> \o name \o <<" ", "=", " ", "\"">>, value, <<"\"", ",", "\n">>>>

\* An author text with the fore name in the place of the initials.
formatAuthor_foreName(author) ==
    Plus(Plus(Plus(author.lastName, <<",", " ">>), author.foreName), <<".">>)

\* formatAuthor(author)
formatAuthor(author) ==
    Plus(Plus(Plus(author.lastName, <<",", " ">>), author.initials), <<".">>)

\* An author text that joins the authors last to first.
joinAuthors_reversed(authors) ==
    LET parts == [i \in 1..Len(authors) |->
                    formatAuthor(authors[Len(authors) + 1 - i])]
    IN  IF \E i \in 1..Len(parts) : parts[i] = TypeError
        THEN TypeError
        ELSE join(<<" ", "a", "n", "d", " ">>, parts)

\* ' and '.join(map(formatAuthor, reference.authors))
joinAuthors(authors) ==
    LET parts == [i \in 1..Len(authors) |-> formatAuthor(authors[i])]
    IN  IF \E i \in 1..Len(parts) : parts[i] = TypeError
        THEN TypeError
        ELSE join(<<" ", "a", "n", "d", " ">>, parts)

\* authorsText: the joined authors, '' when there are none
authorsText(ref) ==
    IF Len(ref.authors) > 0 THEN joinAuthors(ref.authors) ELSE << >>

\* pages: the end page decides whether '--' is written
pages(ref) ==
    IF ref.endPage /= << >>
    THEN Plus(Plus(ref.startPage, <<"-", "-">>), ref.endPage)
    ELSE ref.startPage

\* A choice of journal name that prefers the full name.
theJournal_fullFirst(ref) ==
    IF ref.journal /= << >> THEN ref.journal ELSE ref.journalAb

\* A journal name that is escaped when chosen, and so escaped again when
\* the field is written.
theJournal_escaped(ref) ==
    sanitizeBibtexField(IF ref.journalAb /= << >> THEN ref.journalAb ELSE ref.journal)

\* theJournal: the abbreviated name unless it is ''
theJournal(ref) ==
    IF ref.journalAb /= << >> THEN ref.journalAb ELSE ref.journal

\* A title line without the extra brace layer.
titleField_unbraced(ref) ==
    Plus(Plus(<<" ", " ", " ", "t", "i", "t", "l", "e", " ", "=", " ", "\"">>, sanitizeBibtexField(ref.title)), <<"\"", ",", "\n">>)

\* The one write of the title line
titleField(ref) ==
    Plus(Plus(<<" ", " ", " ", "t", "i", "t", "l", "e", " ", "=", " ", "\"", "{">>, sanitizeBibtexField(ref.title)), <<"}", "\"", ",", "\n">>)

\* A conditional field that is written whatever its value.
appendUnlessEmpty_always(stringBuffer, name, raw, value) ==
    appendFormattedField(stringBuffer, name, value)

\* if reference.<field> != '': appendFormattedField(result, name, value)
appendUnlessEmpty(stringBuffer, name, raw, value) ==
    IF raw /= << >>
    THEN appendFormattedField(stringBuffer, name, value)
    ELSE stringBuffer

\* Notes with the PubMed hyperlink before the DOI one.
notesOf_pubmedFirst(ref, p) ==
    <<<<"[", "P", "u", "b", "M", "e", "d", ":", "\\", "h", "r", "e", "f", "{", "h", "t", "t", "p", "s", ":", "/", "/", "w", "w", "w", ".", "n", "c", "b", "i", ".", "n", "l", "m", ".", "n", "i", "h", ".", "g", "o", "v", "/", "p", "u", "b", "m", "e", "d", "/">>,
      Plus(Plus(Plus(p, <<"}", "{">>), p), <<"}", "]">>)>>
    \o (IF ref.doi /= << >>
        THEN <<<<" ", "[", "D", "O", "I", ":", "\\", "h", "r", "e", "f", "{", "h", "t", "t", "p", "s", ":", "/", "/", "d", "x", ".", "d", "o", "i", ".", "o", "r", "g", "/">>,
               Plus(Plus(Plus(ref.doi, <<"}", "{">>), ref.doi), <<"}", "]">>)>>
        ELSE << >>)

\* The StringIO notes: the DOI hyperlink (if there is a DOI), then the
\* PubMed one.
notesOf(ref, p) ==
    (IF ref.doi /= << >>
     THEN <<<<"[", "D", "O", "I", ":", "\\", "h", "r", "e", "f", "{", "h", "t", "t", "p", "s", ":", "/", "/", "d", "x", ".", "d", "o", "i", ".", "o", "r", "g", "/">>,
            Plus(Plus(Plus(ref.doi, <<"}", "{">>), ref.doi), <<"}", "]", " ", "[">>)>>
     ELSE <<<<"[">>>>)
    \o <<<<"P", "u", "b", "M", "e", "d", ":", "\\", "h", "r", "e", "f", "{", "h", "t", "t", "p", "s", ":", "/", "/", "w", "w", "w", ".", "n", "c", "b", "i", ".", "n", "l", "m", ".", "n", "i", "h", ".", "g", "o", "v", "/", "p", "u", "b", "m", "e", "d", "/">>,
          Plus(Plus(Plus(p, <<"}", "{">>), p), <<"}">>),
          <<"]">>>>

createBibtexContent(ref, p) ==
    LET notes == notesOf(ref, p)
        head == <<<<"%", " ">> \o Format(p) \o <<"\n">>,
                  Plus(<<"@", "A", "r", "t", "i", "c", "l", "e", "{", "p", "m", "i", "d">>, Format(p) \o <<",", "\n">>),
                  titleField(ref)>>
        author == appendFormattedField(head, <<"a", "u", "t", "h", "o", "r">>,
                                       sanitizeBibtexField(authorsText(ref)))
        journal == appendFormattedField(author, <<"j", "o", "u", "r", "n", "a", "l">>,
                                        sanitizeBibtexField(theJournal(ref)))
        volume == appendFormattedField(journal, <<"v", "o", "l", "u", "m", "e">>, ref.volume)
        number == appendFormattedField(volume, <<"n", "u", "m", "b", "e", "r">>, ref.issue)
        pagesF == appendFormattedField(number, <<"p", "a", "g", "e", "s">>, pages(ref))
        year == appendFormattedField(pagesF, <<"y", "e", "a", "r">>, ref.pbyear)
        month == appendFormattedField(year, <<"m", "o", "n", "t", "h">>, ref.pbmonth)
        issn == appendUnlessEmpty(month, <<"i", "s", "s", "n">>, ref.issn, ref.issn)
        copyright == appendUnlessEmpty(issn, <<"c", "o", "p", "y", "r", "i", "g", "h", "t">>, ref.copyright,
                                       sanitizeBibtexField(ref.copyright))
        result == copyright
                  \o <<<<" ", " ", " ", "a", "b", "s", "t", "r", "a", "c", "t", " ", "=", " ", "\"", "{">>,
                        sanitizeBibtexField(ref.abstract),
                        <<"}", "\"", ",", "\n">>,
                        Plus(Plus(<<" ", " ", " ", "n", "o", "t", "e", " ", "=", " ", "{">>, getvalue(notes)), <<"}">>),
                        <<"\n", "}", "\n">>>>
    IN  IF getvalue(result) = TypeError
        THEN Raise("TypeError")
        ELSE Return(getvalue(result))

----------------------------------------------------------------------------
(* The documents the PubMed service can answer with *)

\* At most this many optional nodes of a record are absent or without text.
MaxMissing == 2

\* At most this many entries in an ArticleIdList.
MaxIds == 2

\* At most this many entries in an AuthorList.
MaxAuthors == 2

\* At most this many PubmedArticle entries in a document.
MaxArticles == 2

\* All subsets of S with at most k elements.
RECURSIVE SubsetsUpTo(_, _)
SubsetsUpTo(S, k) ==
    IF k = 0 THEN {{}}
    ELSE LET smaller == SubsetsUpTo(S, k - 1)
         IN  smaller \cup {s \cup {x} : s \in smaller, x \in S}

\* All sequences of at most n elements of S.
RECURSIVE SeqUpTo(_, _)
SeqUpTo(S, n) ==
    IF n = 0 THEN {<< >>}
    ELSE LET shorter == SeqUpTo(S, n - 1)
         IN  shorter \cup {Append(s, x) : s \in shorter, x \in S}

ContainerTags ==
    {"PubmedData", "ArticleIdList", "MedlineCitation", "Article", "Abstract",
     "Journal", "JournalIssue", "PubDate", "Pagination", "AuthorList"}

LeafTags ==
    {"ArticleTitle", "AbstractText", "CopyrightInformation", "Title", "ISSN",
     "ISOAbbreviation", "Volume", "Issue", "Year", "Month", "StartPage",
     "EndPage"}

\* What a record can lack: an element (with all below it), or the text of
\* a leaf element (<Volume/>, or a title that starts with markup).
Defects == ((ContainerTags \cup LeafTags) \X {"missing"}) \cup (LeafTags \X {"empty"})

\* The text of each leaf of a complete record.
LeafText ==
    ("ArticleTitle" :> <<"T", "/", "U+00E9", ".">>) @@ ("AbstractText" :> <<"A", "b", "~">>) @@
    ("CopyrightInformation" :> <<"C", "_", "X">>) @@ ("Title" :> <<"N", "a", "t", "u", "r", "e", " ", "&", " ", "C", "o">>) @@
    ("ISSN" :> <<"1", "-", "2">>) @@ ("ISOAbbreviation" :> <<"N", "&", "C">>) @@
    ("Volume" :> <<"5">>) @@ ("Issue" :> <<"2">>) @@ ("Year" :> <<"2", "0", "1", "9">>) @@
    ("Month" :> <<"N", "o", "v">>) @@ ("StartPage" :> <<"1", "0">>) @@ ("EndPage" :> <<"1", "9">>)

ArticleId(idType, txt) == Element("ArticleId", ("IdType" :> idType), txt, << >>)

IdPool ==
    {ArticleId("pubmed", <<"7">>), ArticleId("doi", <<"1", "0", ".", "1", "/", "x">>),
     ArticleId("doi", <<"1", "0", ".", "2", "/", "y", "_", "z">>), ArticleId("doi", None),
     Element("ArticleId", << >>, <<"z">>, << >>)}

Leaf1(tag, txt) == Element(tag, << >>, txt, << >>)

AuthorPool ==
    {Element("Author", << >>, None,
        <<Leaf1("LastName", <<"S", "m", "i", "t", "h">>), Leaf1("ForeName", <<"J", "o", "h", "n">>),
          Leaf1("Initials", <<"J">>),
          Element("AffiliationInfo", << >>, None,
                  <<Leaf1("Affiliation", <<"M", "I", "T">>), Leaf1("Affiliation", <<"E", "T", "H">>)>>),
          Element("AffiliationInfo", << >>, None,
                  <<Leaf1("Affiliation", <<"C", "E", "R", "N">>)>>)>>),
     Element("Author", << >>, None,
        <<Leaf1("LastName", <<"L", "e", "e">>), Leaf1("Initials", <<"K">>)>>),
     Element("Author", << >>, None,
        <<Leaf1("CollectiveName", <<"W", "H", "O">>),
          Element("AffiliationInfo", << >>, None, << >>)>>),
     Element("Author", << >>, None,
        <<Leaf1("LastName", None), Leaf1("Initials", <<"X">>)>>),
     Element("Author", << >>, None,
        <<Leaf1("LastName", <<"O", "'", "N", "e", "i", "l">>), Leaf1("ForeName", <<"A", "n", "n">>),
          Leaf1("Initials", <<"A">>)>>)}

BaseIds == <<ArticleId("pubmed", <<"7">>), ArticleId("doi", <<"1", "0", ".", "1", "/", "x">>)>>

BaseAuthors ==
    <<CHOOSE a \in AuthorPool : textOrEmpty(find(a, "LastName")) = <<"S", "m", "i", "t", "h">>,
      CHOOSE a \in AuthorPool : textOrEmpty(find(a, "LastName")) = <<"L", "e", "e">>>>

\* The PubmedArticle record that lacks what `defects` names and has the
\* given identifier and author entries.
PubmedArticle(defects, ids, authors) ==
    LET Node(tag, children) ==
            IF <<tag, "missing">> \in defects THEN << >>
            ELSE <<Element(tag, << >>, None, children)>>
        Leaf(tag) ==
            IF <<tag, "missing">> \in defects THEN << >>
            ELSE <<Leaf1(tag, IF <<tag, "empty">> \in defects
                              THEN None ELSE LeafText[tag])>>
    IN  Element("PubmedArticle", << >>, None,
          Node("MedlineCitation",
            Node("Article",
              Node("Journal",
                   Leaf("ISSN")
                   \o Node("JournalIssue",
                           Leaf("Volume") \o Leaf("Issue")
                           \o Node("PubDate", Leaf("Year") \o Leaf("Month")))
                   \o Leaf("Title") \o Leaf("ISOAbbreviation"))
              \o Leaf("ArticleTitle")
              \o Node("Pagination", Leaf("StartPage") \o Leaf("EndPage"))
              \o Node("Abstract", Leaf("AbstractText") \o Leaf("CopyrightInformation"))
              \o Node("AuthorList", authors)))
          \o Node("PubmedData", Node("ArticleIdList", ids)))

PubmedArticleSet(articles) ==
    Document(Element("PubmedArticleSet", << >>, None, articles))

BaseArticle == PubmedArticle({}, BaseIds, BaseAuthors)

\* A second record, with another DOI, no journal and one author, and a
\* record without its PubmedData.
ArticlePool ==
    {BaseArticle,
     PubmedArticle({<<"Journal", "missing">>},
                   <<ArticleId("doi", <<"1", "0", ".", "2", "/", "y", "_", "z">>)>>, <<BaseAuthors[2]>>),
     PubmedArticle({<<"PubmedData", "missing">>}, BaseIds, BaseAuthors)}

\* The record of pmid 31726262 with the title 'A Study', the one author
\* Smith, J, the journal Nature, the year 2019 and no DOI.
ScenarioArticle ==
    Element("PubmedArticle", << >>, None,
      <<Element("MedlineCitation", << >>, None,
          <<Element("Article", << >>, None,
              <<Element("Journal", << >>, None,
                  <<Element("JournalIssue", << >>, None,
                      <<Element("PubDate", << >>, None,
                          <<Leaf1("Year", <<"2", "0", "1", "9">>)>>)>>),
                    Leaf1("Title", <<"N", "a", "t", "u", "r", "e">>)>>),
                Leaf1("ArticleTitle", <<"A", " ", "S", "t", "u", "d", "y">>),
                Element("AuthorList", << >>, None,
                    <<Element("Author", << >>, None,
                        <<Leaf1("LastName", <<"S", "m", "i", "t", "h">>), Leaf1("ForeName", <<"J", "o", "h", "n">>),
                          Leaf1("Initials", <<"J">>)>>)>>)>>)>>),
        Element("PubmedData", << >>, None,
          <<Element("ArticleIdList", << >>, None,
              <<ArticleId("pubmed", <<"3", "1", "7", "2", "6", "2", "6", "2">>)>>)>>)>>)

\* One record with up to MaxMissing defects; one complete record with any
\* identifier list, or any author list; any list of records; the record of
\* pmid 31726262; and a payload that is no XML.
Documents ==
    {PubmedArticleSet(<<PubmedArticle(d, BaseIds, BaseAuthors)>>) :
        d \in SubsetsUpTo(Defects, MaxMissing)}
    \cup {PubmedArticleSet(<<PubmedArticle({}, ids, BaseAuthors)>>) :
            ids \in SeqUpTo(IdPool, MaxIds)}
    \cup {PubmedArticleSet(<<PubmedArticle({}, BaseIds, authors)>>) :
            authors \in SeqUpTo(AuthorPool, MaxAuthors)}
    \cup {PubmedArticleSet(articles) : articles \in SeqUpTo(ArticlePool, MaxArticles)}
    \cup {PubmedArticleSet(<<ScenarioArticle>>), Malformed}

Pmids == {<<"7">>, <<"3", "1", "7", "2", "6", "2", "6", "2">>}

----------------------------------------------------------------------------
(* getTitle and the BibTeX texts the DOI service can answer with *)

\* text.lstrip(chars), text.rstrip(chars): chars is a set of code points
lstrip(s, chars) ==
    LET kept == {i \in 1..Len(s) : s[i] \notin chars}
    IN  IF kept = {} THEN << >>
        ELSE SubSeq(s, CHOOSE i \in kept : \A j \in kept : i <= j, Len(s))

rstrip(s, chars) ==
    LET kept == {i \in 1..Len(s) : s[i] \notin chars}
    IN  IF kept = {} THEN << >>
        ELSE SubSeq(s, 1, CHOOSE i \in kept : \A j \in kept : i >= j)

\* re.search(r'title = (.*?)\n', s).group(): from the first 'title = ' that
\* has a line end after it up to and including that line end; None when
\* there is no such place.
searchTitleLine(s) ==
    LET starts == {i \in 1..Len(s) :
                     /\ i + 7 <= Len(s)
                     /\ SubSeq(s, i, i + 7) = <<"t", "i", "t", "l", "e", " ", "=", " ">>
                     /\ \E j \in (i + 8)..Len(s) : s[j] = "\n"}
    IN  IF starts = {} THEN None
        ELSE LET i == CHOOSE k \in starts : \A m \in starts : k <= m
                 j == CHOOSE k \in (i + 8)..Len(s) :
                          /\ s[k] = "\n"
                          /\ \A m \in (i + 8)..(k - 1) : s[m] /= "\n"
             IN  SubSeq(s, i, j)

\* getTitle(bibtex_content): re.search raises TypeError on None, and
\* .group() of no match raises AttributeError.
getTitle(s) ==
    IF ~IsStr(s) THEN Raise("TypeError")
    ELSE IF searchTitleLine(s) = None THEN Raise("AttributeError")
    ELSE Return(translate(
             rstrip(lstrip(searchTitleLine(s),
                           {"t", "i", "l", "e", " ", "=", "{"}),
                    {"}", ",", "\n"}),
             ("{" :> << >>) @@ ("}" :> << >>)))

\* BibTeX texts: a title with inner braces; a title that begins and ends
\* with letters of the word title; a booktitle before the title; an empty
\* title; no title line.
BibtexTexts ==
    {<<"@", "a", "{", "k", ",", "\n", " ", "t", "i", "t", "l", "e", " ", "=", " ", "{", "A", " ", "{", "B", "}", " ", "S", "t", "u", "d", "y", "}", ",", "\n", " ", "y", "e", "a", "r", " ", "=", " ", "2", "0", "1", "9", "\n", "}">>,
     <<"@", "a", "{", "k", ",", "\n", " ", "t", "i", "t", "l", "e", " ", "=", " ", "{", "t", "i", "t", "l", "e", " ", "l", "i", "s", "t", "}", ",", "\n", "}">>,
     <<"@", "a", "{", "k", ",", "\n", " ", "b", "o", "o", "k", "t", "i", "t", "l", "e", " ", "=", " ", "{", "P", "r", "o", "c", ".", "}", ",", "\n", " ", "t", "i", "t", "l", "e", " ", "=", " ", "{", "R", "e", "a", "l", "}", ",", "\n", "}">>,
     <<"@", "a", "{", "k", ",", "\n", " ", "t", "i", "t", "l", "e", " ", "=", " ", "{", "}", ",", "\n", "}">>,
     <<"@", "a", "{", "k", ",", " ", "y", "e", "a", "r", " ", "=", " ", "2", "0", "1", "9", "}">>}

----------------------------------------------------------------------------
(* main *)

\* text.strip(): without the white space at both ends
strip(s) == rstrip(lstrip(s, {" ", "\t", "\n"}), {" ", "\t", "\n"})

\* text.isdigit(): not empty and digits only; besides 0..9 also other
\* code points are digits for Python, such as the superscript two.
isdigit(s) ==
    /\ Len(s) > 0
    /\ \A i \in 1..Len(s) :
           s[i] \in {"0", "1", "2", "3", "4", "5", "6", "7", "8", "9", "U+00B2"}

\* The argument lists the program is started with: the identifiers of
\* Pmids (the one-digit one in white space), identifiers pmid2bibtex
\* rejects, DOIs, other texts, no argument and two arguments.
Argvs ==
    {<<<<"p", "i", "d", "2", "b", "i", "b">>, IF Len(p) = 1 THEN <<" ">> \o p \o <<"\n">> ELSE p>> : p \in Pmids}
    \cup {<<<<"p", "i", "d", "2", "b", "i", "b">>, a>> :
            a \in {<<"0", "1", "2">>, <<"1", "2", "3", "4", "5", "6", "7", "8", "9">>, <<"U+00B2">>, <<"1", "0", ".", "1", "/", "x">>, <<" ", "1", "/", "2", " ">>,
                   <<"a", "b", "c">>, <<"7", "a">>, <<" ">>, << >>}}
    \cup {<<<<"p", "i", "d", "2", "b", "i", "b">>>>, <<<<"p", "i", "d", "2", "b", "i", "b">>, <<"7">>, <<"8">>>>}

\* One print call: the fixed wording, the text it names, the error shown.
Message(wording, arg, detail) == [msg |-> wording, arg |-> arg, detail |-> detail]

Init ==
    /\ pc = "main"
    /\ argv \in Argvs
    /\ pmid = Idle
    /\ doi = Idle
    /\ title = Idle
    /\ xml = NotFetched
    /\ reference = NoReference
    /\ error = ""
    /\ bibtex_content = Idle
    /\ filename = Idle
    /\ files = {}
    /\ stdout = << >>
    /\ text = Idle /\ cut = 0 /\ escaped = NoCalls /\ fileName = NoResult
    /\ lists = << >> /\ references = << >> /\ contents = << >>

\* main(): one argument is stripped and routed, to doi2bibtex when it has
\* a '/', to pmid2bibtex when it is all digits, and refused otherwise; any
\* other number of arguments prints the usage.
Main ==
    /\ pc = "main"
    /\ IF Len(argv) = 2
       THEN LET paperId == strip(argv[2])
            IN  IF \E i \in 1..Len(paperId) : paperId[i] = "/"
                THEN /\ doi' = paperId
                     /\ pc' = "fetchBibtex"
                     /\ UNCHANGED <<pmid, stdout>>
                ELSE IF isdigit(paperId)
                THEN /\ pmid' = paperId
                     /\ pc' = "pmid2bibtex"
                     /\ UNCHANGED <<doi, stdout>>
                ELSE /\ stdout' = Append(stdout,
                            Message("Paper identifier not supported. Only pmid and DOI are allowed",
                                    << >>, ""))
                     /\ pc' = "done"
                     /\ UNCHANGED <<pmid, doi>>
       ELSE /\ stdout' = stdout \o
                   <<Message("Usage: pid2bib paperId", << >>, ""),
                     Message("e.g. pid2bib 31726262", << >>, ""),
                     Message("e.g. pid2bib 10.1021/acs.jced.5b00684", << >>, ""),
                     Message("will create a bibtex file named with the paper title in the current path",
                             << >>, "")>>
            /\ pc' = "done"
            /\ UNCHANGED <<pmid, doi>>
    /\ UNCHANGED <<lists, references, contents, argv, title, xml, reference, error, bibtex_content, filename,
                   files, text, cut, escaped, fileName>>

\* A pmid2bibtex that checks the length only.
Pmid2bibtex_lengthOnly ==
    /\ pc = "pmid2bibtex"
    /\ IF Len(pmid) < 1 \/ Len(pmid) > 8
       THEN /\ stdout' = Append(stdout,
                   Message("Wrong identifer length, it must have 1 to 8 digits", << >>, ""))
            /\ pc' = "done"
       ELSE /\ pc' = "fetchXML"
            /\ UNCHANGED stdout
    /\ UNCHANGED <<lists, references, contents, argv, pmid, doi, title, xml, reference, error, bibtex_content,
                   filename, files, text, cut, escaped, fileName>>

\* pmid2bibtex(pmid), before its try block: an identifier of the wrong
\* length, or one that starts with 0, is refused.
Pmid2bibtex ==
    /\ pc = "pmid2bibtex"
    /\ IF Len(pmid) < 1 \/ Len(pmid) > 8
       THEN /\ stdout' = Append(stdout,
                   Message("Wrong identifer length, it must have 1 to 8 digits", << >>, ""))
            /\ pc' = "done"
       ELSE IF pmid[1] = "0"
       THEN /\ stdout' = Append(stdout,
                   Message("The identifier can not start with 0", << >>, ""))
            /\ pc' = "done"
       ELSE /\ pc' = "fetchXML"
            /\ UNCHANGED stdout
    /\ UNCHANGED <<lists, references, contents, argv, pmid, doi, title, xml, reference, error, bibtex_content,
                   filename, files, text, cut, escaped, fileName>>

\* A request line is sent as ASCII.
IsAscii(s) == \A i \in 1..Len(s) : Len(s[i]) = 1

\* xml = fetchXML(pmid): the payload of a 200 response; None after another
\* status; None and a message after a URLError; any other exception (a
\* broken read, an undecodable payload, an identifier that cannot be sent
\* as ASCII) leaves the try block.
FetchXML ==
    /\ pc = "fetchXML"
    /\ \/ /\ IsAscii(pmid)
          /\ xml' \in Documents
          /\ pc' = "parseXML"
          /\ UNCHANGED <<stdout, error>>
       \/ /\ IsAscii(pmid)
          /\ xml' = NoDocument
          /\ pc' = "parseXML"
          /\ UNCHANGED <<stdout, error>>
       \/ /\ IsAscii(pmid)
          /\ xml' = NoDocument
          /\ pc' = "parseXML"
          /\ stdout' = Append(stdout,
                 Message("Error downloading XML entry from pubmed", << >>, "URLError"))
          /\ UNCHANGED error
       \/ /\ error' \in (IF IsAscii(pmid)
                         THEN {"IncompleteRead", "UnicodeDecodeError"}
                         ELSE {"UnicodeEncodeError"})
          /\ pc' = "except"
          /\ UNCHANGED <<xml, stdout>>
    /\ UNCHANGED <<lists, references, contents, argv, pmid, doi, title, reference, bibtex_content, filename, files,
                   text, cut, escaped, fileName>>

\* reference = parseXML(pmid, xml)
ParseXML ==
    /\ pc = "parseXML"
    /\ LET r == parseXML(pmid, xml)
       IN  IF r.exc = ""
           THEN reference' = r.val /\ pc' = "createBibtexContent" /\ UNCHANGED error
           ELSE error' = r.exc /\ pc' = "except" /\ UNCHANGED reference
    /\ UNCHANGED <<lists, references, contents, argv, pmid, doi, title, xml, bibtex_content, filename, files, stdout,
                   text, cut, escaped, fileName>>

\* bibtex_content = createBibtexContent(reference, pmid)
CreateBibtexContent ==
    /\ pc = "createBibtexContent"
    /\ LET r == createBibtexContent(reference, pmid)
       IN  IF r.exc = ""
           THEN bibtex_content' = r.val /\ pc' = "sanitizeFileName" /\ UNCHANGED error
           ELSE error' = r.exc /\ pc' = "except" /\ UNCHANGED bibtex_content
    /\ UNCHANGED <<lists, references, contents, argv, pmid, doi, title, xml, reference, filename, files, stdout,
                   text, cut, escaped, fileName>>

\* filename = sanitizeFileName(reference.title) + '.bib'
SanitizeFileName ==
    /\ pc = "sanitizeFileName"
    /\ LET r == sanitizeFileName(reference.title)
       IN  IF r.exc = ""
           THEN filename' = r.val \o <<".", "b", "i", "b">> /\ pc' = "createFile" /\ UNCHANGED error
           ELSE error' = r.exc /\ pc' = "except" /\ UNCHANGED filename
    /\ UNCHANGED <<lists, references, contents, argv, pmid, doi, title, xml, reference, bibtex_content, files, stdout,
                   text, cut, escaped, fileName>>

\* createFile(filename, content): the file is written; or it cannot be
\* opened; or it is opened (and so created, empty) and the write fails.
\* Either failure is printed inside createFile, which then returns.
createFile(name, content) ==
    \/ /\ files' = {f \in files : f.name /= name}
                    \cup {[name |-> name, content |-> content]}
       /\ UNCHANGED stdout
    \/ /\ stdout' = Append(stdout, Message("Error opening file", name, ""))
       /\ UNCHANGED files
    \/ /\ files' = {f \in files : f.name /= name}
                    \cup {[name |-> name, content |-> << >>]}
       /\ stdout' = Append(stdout, Message("Error writing to file", name, ""))

\* createFile(filename, bibtex_content) in pmid2bibtex
CreateFile ==
    /\ pc = "createFile"
    /\ createFile(filename, bibtex_content)
    /\ pc' = "print"
    /\ UNCHANGED <<lists, references, contents, argv, pmid, doi, title, xml, reference, error, bibtex_content, filename,
                   text, cut, escaped, fileName>>

\* print(f'File "{filename}" was created.')
PrintCreated ==
    /\ pc = "print"
    /\ stdout' = Append(stdout, Message("File was created.", filename, ""))
    /\ pc' = "done"
    /\ UNCHANGED <<lists, references, contents, argv, pmid, doi, title, xml, reference, error, bibtex_content, filename, files,
                   text, cut, escaped, fileName>>

\* An except clause that prints nothing.
Except_silent ==
    /\ pc = "except"
    /\ pc' = "done"
    /\ UNCHANGED <<lists, references, contents, argv, pmid, doi, title, xml, reference, error, bibtex_content,
                   filename, files, stdout, text, cut, escaped, fileName>>

\* except Exception as err: print(f'Error processing {pmid}:\n {err}')
Except ==
    /\ pc = "except"
    /\ stdout' = Append(stdout, Message("Error processing", pmid, error))
    /\ pc' = "done"
    /\ UNCHANGED <<lists, references, contents, argv, pmid, doi, title, xml, reference, error, bibtex_content, filename, files,
                   text, cut, escaped, fileName>>

\* The exceptions that have an attribute named reason.
HasReason == {"URLError", "HTTPError", "UnicodeDecodeError", "UnicodeEncodeError"}

\* bibtex_content = fetchBibtex(doi): the payload of a 200 response; None
\* after another status; None and a message after a URLError; any other
\* exception leaves the try block of doi2bibtex.
FetchBibtex ==
    /\ pc = "fetchBibtex"
    /\ \/ /\ bibtex_content' \in BibtexTexts
          /\ pc' = "getTitle"
          /\ UNCHANGED <<stdout, error>>
       \/ /\ bibtex_content' = None
          /\ pc' = "getTitle"
          /\ UNCHANGED <<stdout, error>>
       \/ /\ bibtex_content' = None
          /\ pc' = "getTitle"
          /\ stdout' = Append(stdout,
                 Message("Error downloading BibTeX entry from dx.doi.org.", << >>, "URLError"))
          /\ UNCHANGED error
       \/ /\ error' \in {"IncompleteRead", "UnicodeDecodeError", "InvalidURL"}
          /\ pc' = "doi except"
          /\ UNCHANGED <<bibtex_content, stdout>>
    /\ UNCHANGED <<lists, references, contents, argv, pmid, doi, title, xml, reference, filename, files,
                   text, cut, escaped, fileName>>

\* title = getTitle(bibtex_content)
GetTitle ==
    /\ pc = "getTitle"
    /\ LET r == getTitle(bibtex_content)
       IN  IF r.exc = ""
           THEN title' = r.val /\ pc' = "doi sanitizeFileName" /\ UNCHANGED error
           ELSE error' = r.exc /\ pc' = "doi except" /\ UNCHANGED title
    /\ UNCHANGED <<lists, references, contents, argv, pmid, doi, xml, reference, bibtex_content, filename,
                   files, stdout, text, cut, escaped, fileName>>

\* filename = sanitizeFileName(title) + '.bib' in doi2bibtex
DoiSanitizeFileName ==
    /\ pc = "doi sanitizeFileName"
    /\ LET r == sanitizeFileName(title)
       IN  IF r.exc = ""
           THEN filename' = r.val \o <<".", "b", "i", "b">> /\ pc' = "doi createFile" /\ UNCHANGED error
           ELSE error' = r.exc /\ pc' = "doi except" /\ UNCHANGED filename
    /\ UNCHANGED <<lists, references, contents, argv, pmid, doi, title, xml, reference, bibtex_content, files,
                   stdout, text, cut, escaped, fileName>>

\* A doi2bibtex that writes the fetched text through the escaper.
DoiCreateFile_escaped ==
    /\ pc = "doi createFile"
    /\ createFile(filename, sanitizeBibtexField(bibtex_content))
    /\ pc' = "doi print"
    /\ UNCHANGED <<lists, references, contents, argv, pmid, doi, title, xml, reference, error, bibtex_content,
                   filename, text, cut, escaped, fileName>>

\* createFile(filename, bibtex_content) in doi2bibtex
DoiCreateFile ==
    /\ pc = "doi createFile"
    /\ createFile(filename, bibtex_content)
    /\ pc' = "doi print"
    /\ UNCHANGED <<lists, references, contents, argv, pmid, doi, title, xml, reference, error, bibtex_content,
                   filename, text, cut, escaped, fileName>>

\* print(f'File "{filename}" was created.') in doi2bibtex
DoiPrintCreated ==
    /\ pc = "doi print"
    /\ stdout' = Append(stdout, Message("File was created.", filename, ""))
    /\ pc' = "done"
    /\ UNCHANGED <<lists, references, contents, argv, pmid, doi, title, xml, reference, error, bibtex_content,
                   filename, files, text, cut, escaped, fileName>>

\* except Exception as error: print(f'Error processing {doi}:\n
\* {error.reason}'): an exception without the attribute reason makes the
\* handler raise AttributeError, which leaves doi2bibtex and main.
DoiExcept ==
    /\ pc = "doi except"
    /\ IF error \in HasReason
       THEN /\ stdout' = Append(stdout, Message("Error processing", doi, error))
            /\ pc' = "done"
            /\ UNCHANGED error
       ELSE /\ error' = "AttributeError"
            /\ pc' = "raised"
            /\ UNCHANGED stdout
    /\ UNCHANGED <<lists, references, contents, argv, pmid, doi, title, xml, reference, bibtex_content,
                   filename, files, text, cut, escaped, fileName>>

Next ==
    \/ Main
    \/ Pmid2bibtex
    \/ FetchXML
    \/ ParseXML
    \/ CreateBibtexContent
    \/ SanitizeFileName
    \/ CreateFile
    \/ PrintCreated
    \/ Except
    \/ FetchBibtex
    \/ GetTitle
    \/ DoiSanitizeFileName
    \/ DoiCreateFile
    \/ DoiPrintCreated
    \/ DoiExcept

Spec == Init /\ [][Next]_vars

----------------------------------------------------------------------------
(* Direct calls of the escaper: escape(a), escape(b), escape(a + b) and    *)
(* escape(escape(a + b)) for every text a + b over EscapeAlphabet.         *)

\* At most this many code points in an escaped text.
MaxTextLen == 3

EscapeAlphabet == {"a", "-", "~", "\\", "{", "U+00E9", "U+0301"}

InitEscape ==
    /\ pc = "escape"
    /\ text \in StrUpTo(EscapeAlphabet, MaxTextLen)
    /\ cut \in 0..Len(text)
    /\ escaped = NoCalls
    /\ fileName = NoResult
    /\ PipelineIdle

\* escape(a) and escape(b), a and b the two parts of the text
EscapeParts ==
    /\ pc = "escape"
    /\ escaped' = [escaped EXCEPT
                     !.left = sanitizeBibtexField(SubSeq(text, 1, cut)),
                     !.right = sanitizeBibtexField(SubSeq(text, cut + 1, Len(text)))]
    /\ pc' = "escape whole"
    /\ UNCHANGED <<lists, references, contents, argv, pmid, doi, title, xml, reference, error, bibtex_content, filename, files,
                   stdout, text, cut, fileName>>

\* escape(a + b)
EscapeWhole ==
    /\ pc = "escape whole"
    /\ escaped' = [escaped EXCEPT !.whole = sanitizeBibtexField(text)]
    /\ pc' = "escape again"
    /\ UNCHANGED <<lists, references, contents, argv, pmid, doi, title, xml, reference, error, bibtex_content, filename, files,
                   stdout, text, cut, fileName>>

\* the escaper applied to its own output
EscapeAgain ==
    /\ pc = "escape again"
    /\ escaped' = [escaped EXCEPT !.again = sanitizeBibtexField(escaped.whole)]
    /\ pc' = "escaped"
    /\ UNCHANGED <<lists, references, contents, argv, pmid, doi, title, xml, reference, error, bibtex_content, filename, files,
                   stdout, text, cut, fileName>>

NextEscape == EscapeParts \/ EscapeWhole \/ EscapeAgain

SpecEscape == InitEscape /\ [][NextEscape]_vars

----------------------------------------------------------------------------
(* Direct calls of sanitizeFileName on every text over FileNameAlphabet.   *)

\* At most this many code points in a text given to sanitizeFileName.
MaxNameLen == 3

FileNameAlphabet == {"a", ".", "/", "?", "{", ":", "\\"}

InitFileName ==
    /\ pc = "sanitize"
    /\ text \in StrUpTo(FileNameAlphabet, MaxNameLen)
    /\ cut = 0
    /\ escaped = NoCalls
    /\ fileName = NoResult
    /\ PipelineIdle

CallSanitizeFileName ==
    /\ pc = "sanitize"
    /\ fileName' = sanitizeFileName(text)
    /\ pc' = "sanitized"
    /\ UNCHANGED <<lists, references, contents, argv, pmid, doi, title, xml, reference, error, bibtex_content, filename, files,
                   stdout, text, cut, escaped>>

NextFileName == CallSanitizeFileName

SpecFileName == InitFileName /\ [][NextFileName]_vars

----------------------------------------------------------------------------
(* The functions called by a program that imports the module: parseXML   *)
(* more than once, and createBibtexContent and sanitizeFileName on the    *)
(* References it returned.  Objects have an identity here: a list is an   *)
(* entry of lists, and the authors attribute of a Reference is its index. *)

\* At most this many calls of parseXML.
MaxCalls == 2

\* At most this many calls of createBibtexContent.
MaxRenders == 2

\* A list object made once and given to every Reference.
newList_shared(objs) == 1

\* Reference.__init__, self.authors = []: the display makes a new list
\* object at every call.
newList(objs) == Len(objs) + 1

\* The list objects once the object a exists.
withList(objs, a) == IF a > Len(objs) THEN Append(objs, << >>) ELSE objs

\* The Reference as a value: its authors attribute followed to the list.
Value(ref) == [ref EXCEPT !.authors = lists[ref.authors]]

\* The documents parsed: complete records with no, one and two authors,
\* and the record of pmid 31726262.
LibraryDocuments ==
    {PubmedArticleSet(<<PubmedArticle({}, BaseIds, authors)>>) :
        authors \in {<< >>, <<BaseAuthors[1]>>, BaseAuthors}}
    \cup {PubmedArticleSet(<<ScenarioArticle>>)}

InitLibrary ==
    /\ pc = "library"
    /\ text = Idle /\ cut = 0 /\ escaped = NoCalls /\ fileName = NoResult
    /\ PipelineIdle

\* ref = parseXML(pmid, xml): Reference(pmid) makes the object and its
\* authors list, the loop appends each author to that list in place.
CallParseXML ==
    /\ pc = "library"
    /\ Len(references) < MaxCalls
    /\ \E x \in LibraryDocuments :
           LET r == parseXML(<<"7">>, x).val
               a == newList(lists)
           IN  /\ lists' = [withList(lists, a) EXCEPT ![a] = @ \o r.authors]
               /\ references' = Append(references, [r EXCEPT !.authors = a])
    /\ UNCHANGED <<pc, argv, pmid, doi, title, xml, reference, error,
                   bibtex_content, filename, files, stdout, text, cut,
                   escaped, fileName, contents>>

\* createBibtexContent(ref, ref.pmid) on a Reference returned before: it
\* reads the attributes and the list, and assigns to none of them.
CallCreateBibtexContent ==
    /\ pc = "library"
    /\ Len(contents) < MaxRenders
    /\ \E i \in 1..Len(references) :
           contents' = Append(contents,
               [reference |-> i, calls |-> Len(references),
                text |-> createBibtexContent(Value(references[i]),
                                             references[i].pmid).val])
    /\ UNCHANGED <<pc, argv, pmid, doi, title, xml, reference, error,
                   bibtex_content, filename, files, stdout, text, cut,
                   escaped, fileName, lists, references>>

\* sanitizeFileName(ref.title) on a Reference returned before
CallSanitizeFileNameOfTitle ==
    /\ pc = "library"
    /\ fileName = NoResult
    /\ \E i \in 1..Len(references) :
           fileName' = sanitizeFileName(references[i].title)
    /\ UNCHANGED <<pc, argv, pmid, doi, title, xml, reference, error,
                   bibtex_content, filename, files, stdout, text, cut,
                   escaped, lists, references, contents>>

NextLibrary ==
    \/ CallParseXML
    \/ CallCreateBibtexContent
    \/ CallSanitizeFileNameOfTitle

SpecLibrary == InitLibrary /\ [][NextLibrary]_vars

----------------------------------------------------------------------------
(* Properties of parseXML and createBibtexContent, checked under Spec *)

\* parseXML was called on the text of an XML document.
ParsedDocument == pc \notin {"fetchXML", "parseXML"} /\ xml.kind = "xml"

\* The PubmedArticle entries of the fetched document.
Articles == findall(xml.root, "PubmedArticle")

\* The element reached from elem along a path of tags, None if a step of
\* the path is absent.
RECURSIVE Descend(_, _)
Descend(elem, path) ==
    IF Len(path) = 0 \/ elem = NoneElem THEN elem
    ELSE Descend(find(elem, Head(path)), Tail(path))

\* The first record's Article element and its identifier and author lists.
FirstArticleElem == Descend(Articles[1], <<"MedlineCitation", "Article">>)
FirstIdList == Descend(Articles[1], <<"PubmedData", "ArticleIdList">>)
FirstAuthorList == find(FirstArticleElem, "AuthorList")

\* The first record has the nodes that are not optional: the citation with
\* its article, and the identifier list with a type on every identifier.
RequiredPresent ==
    /\ Len(Articles) >= 1
    /\ FirstArticleElem /= NoneElem
    /\ FirstIdList /= NoneElem
    /\ \A i \in 1..Len(FirstIdList.children) :
           "IdType" \in DOMAIN FirstIdList.children[i].attrib

\* s starts with prefix.
IsPrefix(prefix, s) ==
    Len(prefix) <= Len(s) /\ SubSeq(s, 1, Len(prefix)) = prefix

\* sub occurs in s.
Contains(s, sub) ==
    \E i \in 0..(Len(s) - Len(sub)) : SubSeq(s, i + 1, i + Len(sub)) = sub

\* C1: in every Reference that parseXML returns, article_url is
\* 'https://doi.org/<doi>' when doi is not '' and
\* 'https://pubmed.ncbi.nlm.nih.gov/<pmid>/' when it is; a record with an
\* identifier tagged IdType='doi' has the DOI form and never the PubMed
\* form, a record without one has the PubMed form.  (The doi of an
\* identifier without text is None, which is formatted as 'None'.)
InvC1 ==
    reference /= NoReference =>
        /\ reference.article_url =
              IF reference.doi = << >>
              THEN <<"h", "t", "t", "p", "s", ":", "/", "/", "p", "u", "b", "m", "e", "d", ".", "n", "c", "b", "i", ".", "n", "l", "m", ".", "n", "i", "h", ".", "g", "o", "v", "/">> \o pmid \o <<"/">>
              ELSE <<"h", "t", "t", "p", "s", ":", "/", "/", "d", "o", "i", ".", "o", "r", "g", "/">> \o Format(reference.doi)
        /\ IF \E i \in 1..Len(FirstIdList.children) :
                  FirstIdList.children[i].attrib["IdType"] = "doi"
           THEN /\ IsPrefix(<<"h", "t", "t", "p", "s", ":", "/", "/", "d", "o", "i", ".", "o", "r", "g", "/">>, reference.article_url)
                /\ ~IsPrefix(<<"h", "t", "t", "p", "s", ":", "/", "/", "p", "u", "b", "m", "e", "d", ".", "n", "c", "b", "i", ".", "n", "l", "m", ".", "n", "i", "h", ".", "g", "o", "v", "/">>,
                             reference.article_url)
           ELSE reference.article_url =
                    <<"h", "t", "t", "p", "s", ":", "/", "/", "p", "u", "b", "m", "e", "d", ".", "n", "c", "b", "i", ".", "n", "l", "m", ".", "n", "i", "h", ".", "g", "o", "v", "/">> \o pmid \o <<"/">>

\* A record with a DOI identifier was parsed and got the DOI-resolver URL.
WitC1 ==
    /\ reference /= NoReference
    /\ reference.doi = <<"1", "0", ".", "1", "/", "x">>
    /\ reference.article_url = <<"h", "t", "t", "p", "s", ":", "/", "/", "d", "o", "i", ".", "o", "r", "g", "/", "1", "0", ".", "1", "/", "x">>

\* The leaves under the optional nodes that C2 names, each with its path
\* below the Article element and the Reference field it fills.
OptionalLeaves ==
    {<<<<"Abstract", "AbstractText">>, "abstract">>,
     <<<<"Abstract", "CopyrightInformation">>, "copyright">>,
     <<<<"Journal", "Title">>, "journal">>,
     <<<<"Journal", "ISSN">>, "issn">>,
     <<<<"Journal", "ISOAbbreviation">>, "journalAb">>,
     <<<<"Journal", "JournalIssue", "Volume">>, "volume">>,
     <<<<"Journal", "JournalIssue", "Issue">>, "issue">>,
     <<<<"Journal", "JournalIssue", "PubDate", "Year">>, "pbyear">>,
     <<<<"Journal", "JournalIssue", "PubDate", "Month">>, "pbmonth">>,
     <<<<"Pagination", "StartPage">>, "startPage">>,
     <<<<"Pagination", "EndPage">>, "endPage">>}

\* C2 (as claimed): whenever an optional node of the record is absent at
\* any level (abstract, copyright notice, journal, journal issue,
\* publication date, pagination, a per-author affiliation, or a leaf under
\* them), parseXML does not raise and the corresponding field is ''.
CexC2 ==
    (ParsedDocument /\ RequiredPresent /\ FirstAuthorList /= NoneElem) =>
        /\ reference /= NoReference
        /\ \A leaf \in OptionalLeaves :
               Descend(FirstArticleElem, leaf[1]) = NoneElem
                   => reference[leaf[2]] = << >>
        /\ \A i \in 1..Len(FirstAuthorList.children) :
               Descend(FirstAuthorList.children[i],
                       <<"AffiliationInfo", "Affiliation">>) = NoneElem
                   => reference.authors[i].institution = << >>

\* C3: on a parsed document, parseXML raises the empty-result error exactly
\* when the document has no PubmedArticle entry; with one or more entries
\* its outcome (the Reference, or the exception) is that of the document
\* holding the first entry alone.
InvC3 ==
    ParsedDocument =>
        /\ (error = "Empty result for the given pubmed id") <=> (Len(Articles) = 0)
        /\ Len(Articles) = 0 => reference = NoReference
        /\ Len(Articles) >= 1 =>
               LET alone == parseXML(pmid, PubmedArticleSet(<<Articles[1]>>))
               IN  IF reference = NoReference
                   THEN alone.exc = error
                   ELSE alone = Return(reference)

\* A document with two different records was parsed into a Reference.
WitC3 ==
    /\ ParsedDocument
    /\ Len(Articles) = 2
    /\ Articles[1] /= Articles[2]
    /\ reference /= NoReference
    /\ reference.title = <<"T", "/", "U+00E9", ".">>

\* The text of the first child of elem with the tag, '' if there is none.
FirstText(elem, tag) ==
    IF \E i \in 1..Len(elem.children) : elem.children[i].tag = tag
    THEN elem.children[
             CHOOSE i \in 1..Len(elem.children) :
                 /\ elem.children[i].tag = tag
                 /\ \A j \in 1..(i - 1) : elem.children[j].tag /= tag].text
    ELSE << >>

\* The first affiliation string of an author entry, '' if it has none.
FirstAffiliation(entry) ==
    IF \E i \in 1..Len(entry.children) : entry.children[i].tag = "AffiliationInfo"
    THEN FirstText(entry.children[
             CHOOSE i \in 1..Len(entry.children) :
                 /\ entry.children[i].tag = "AffiliationInfo"
                 /\ \A j \in 1..(i - 1) : entry.children[j].tag /= "AffiliationInfo"],
             "Affiliation")
    ELSE << >>

\* C4: the authors of a returned Reference are the entries of the record's
\* author list, one Author per entry and in document order, the i-th Author
\* holding the last name, fore name, initials and first affiliation of the
\* i-th entry; and the author field that createBibtexContent writes lists
\* '<last name>, <initials>.' of the entries, escaped, in that same order.
InvC4 ==
    reference /= NoReference =>
        LET entries == FirstAuthorList.children
        IN  /\ Len(reference.authors) = Len(entries)
            /\ \A i \in 1..Len(entries) :
                   reference.authors[i] =
                       Author(FirstText(entries[i], "LastName"),
                              FirstText(entries[i], "ForeName"),
                              FirstText(entries[i], "Initials"),
                              FirstAffiliation(entries[i]))
            /\ bibtex_content /= Idle =>
                   Contains(bibtex_content,
                       <<" ", " ", " ", "a", "u", "t", "h", "o", "r", " ", "=", " ", "\"">>
                       \o join(<<" ", "a", "n", "d", " ">>,
                               [i \in 1..Len(entries) |->
                                   sanitizeBibtexField(
                                       FirstText(entries[i], "LastName") \o <<",", " ">>
                                       \o FirstText(entries[i], "Initials") \o <<".">>)])
                       \o <<"\"", ",", "\n">>)

\* A record with two authors was parsed and rendered.
WitC4 ==
    /\ reference /= NoReference
    /\ Len(reference.authors) = 2
    /\ reference.authors[1].lastName = <<"S", "m", "i", "t", "h">>
    /\ reference.authors[1].institution = <<"M", "I", "T">>
    /\ reference.authors[2].lastName = <<"L", "e", "e">>
    /\ Contains(bibtex_content, <<" ", " ", " ", "a", "u", "t", "h", "o", "r", " ", "=", " ", "\"", "S", "m", "i", "t", "h", ",", " ", "J", ".", " ", "a", "n", "d", " ", "L", "e", "e", ",", " ", "K", ".", "\"", ",", "\n">>)

\* C5 (as claimed): for a record with zero authors, whether its author list
\* has no entries or is missing, parseXML returns a Reference with an empty
\* authors list, and createBibtexContent writes the line `   author = "",`.
CexC5 ==
    (/\ ParsedDocument /\ RequiredPresent
     /\ (find(FirstArticleElem, "Journal") /= NoneElem
            => Descend(FirstArticleElem, <<"Journal", "JournalIssue">>) /= NoneElem)
     /\ (FirstAuthorList = NoneElem \/ Len(FirstAuthorList.children) = 0)) =>
        /\ reference /= NoReference
        /\ reference.authors = << >>
        /\ bibtex_content /= Idle => Contains(bibtex_content, <<" ", " ", " ", "a", "u", "t", "h", "o", "r", " ", "=", " ", "\"", "\"", ",", "\n">>)

\* The identifiers of the first record that are tagged as DOI, in document
\* order.
DoiIds ==
    SelectSeq(FirstIdList.children, LAMBDA id : id.attrib["IdType"] = "doi")

\* C28: in every Reference that parseXML returns, doi is the text of the
\* identifier of the record's identifier list tagged IdType='doi', of the
\* last one in document order when several are so tagged, and '' when none
\* is; identifiers with another tag, before or after, make no difference.
InvC28 ==
    (ParsedDocument /\ reference /= NoReference) =>
        reference.doi = IF Len(DoiIds) = 0 THEN << >>
                        ELSE DoiIds[Len(DoiIds)].text

\* A record with two identifiers tagged as DOI was parsed: the second one
\* is the doi of the Reference.
WitC28 ==
    /\ ParsedDocument /\ reference /= NoReference
    /\ Len(DoiIds) = 2
    /\ DoiIds[1].text = <<"1", "0", ".", "1", "/", "x">>
    /\ DoiIds[2].text = <<"1", "0", ".", "2", "/", "y", "_", "z">>
    /\ reference.doi = <<"1", "0", ".", "2", "/", "y", "_", "z">>

----------------------------------------------------------------------------
(* Properties of createBibtexContent, checked under Spec *)

\* createBibtexContent returned the text of the Reference.
Rendered == reference /= NoReference /\ bibtex_content /= Idle

\* The lines of a text, each without the line end that closes it.
Lines(s) ==
    LET ends == SelectSeq([i \in 1..Len(s) |-> i], LAMBDA i : s[i] = "\n")
    IN  [k \in 1..Len(ends) |->
            SubSeq(s, (IF k = 1 THEN 0 ELSE ends[k - 1]) + 1, ends[k] - 1)]

\* s ends with suffix.
IsSuffix(suffix, s) ==
    Len(suffix) <= Len(s)
    /\ SubSeq(s, Len(s) - Len(suffix) + 1, Len(s)) = suffix

\* The field name of a line `   <name> = ...`, '' for any other line.
FieldName(line) ==
    LET at == {i \in 4..(Len(line) - 2) : SubSeq(line, i, i + 2) = <<" ", "=", " ">>}
    IN  IF IsPrefix(<<" ", " ", " ">>, line) /\ at /= {}
        THEN SubSeq(line, 4, (CHOOSE i \in at : \A j \in at : i <= j) - 1)
        ELSE << >>

\* The lines of the rendered text that belong to the field: those that
\* begin with three spaces, the name and ' = '.
FieldLines(name) ==
    SelectSeq(Lines(bibtex_content),
              LAMBDA line : IsPrefix(<<" ", " ", " ">> \o name \o <<" ", "=", " ">>, line))

\* The value of a field written as `   <name> = "<value>",`.
FieldValue(name) ==
    LET line == FieldLines(name)[1]
    IN  SubSeq(line, Len(name) + 8, Len(line) - 2)

\* C11: the text that createBibtexContent returns is the line
\* '% <identifier>', the line '@Article{pmid<identifier>,', the fields
\* title, author, journal, volume, number, pages, year, month, then issn
\* and copyright if written, then abstract and note, in this order, and a
\* last line '}'; every field line but those of title, abstract and note is
\* three spaces, the name, ` = "`, the value and `",`; the text ends with
\* a line end, '}' and a line end.
InvC11 ==
    Rendered =>
        LET L == Lines(bibtex_content)
            n == Len(L)
            names == [k \in 1..(n - 3) |-> FieldName(L[k + 2])]
            fixed == <<<<"t", "i", "t", "l", "e">>, <<"a", "u", "t", "h", "o", "r">>, <<"j", "o", "u", "r", "n", "a", "l">>, <<"v", "o", "l", "u", "m", "e">>, <<"n", "u", "m", "b", "e", "r">>,
                       <<"p", "a", "g", "e", "s">>, <<"y", "e", "a", "r">>, <<"m", "o", "n", "t", "h">>>>
            last == <<<<"a", "b", "s", "t", "r", "a", "c", "t">>, <<"n", "o", "t", "e">>>>
        IN  /\ n >= 13
            /\ L[1] = <<"%", " ">> \o pmid
            /\ L[2] = <<"@", "A", "r", "t", "i", "c", "l", "e", "{", "p", "m", "i", "d">> \o pmid \o <<",">>
            /\ names \in {fixed \o last,
                           fixed \o <<<<"i", "s", "s", "n">>>> \o last,
                           fixed \o <<<<"c", "o", "p", "y", "r", "i", "g", "h", "t">>>> \o last,
                           fixed \o <<<<"i", "s", "s", "n">>, <<"c", "o", "p", "y", "r", "i", "g", "h", "t">>>> \o last}
            /\ \A k \in 3..(n - 1) :
                   FieldName(L[k]) \notin {<<"t", "i", "t", "l", "e">>, <<"a", "b", "s", "t", "r", "a", "c", "t">>, <<"n", "o", "t", "e">>} =>
                       /\ IsPrefix(<<" ", " ", " ">> \o FieldName(L[k]) \o <<" ", "=", " ", "\"">>, L[k])
                       /\ IsSuffix(<<"\"", ",">>, L[k])
                       /\ Len(L[k]) >= Len(FieldName(L[k])) + 9
            /\ L[n] = <<"}">>
            /\ IsSuffix(<<"\n", "}", "\n">>, bibtex_content)

\* A complete record, with ISSN and copyright notice, was rendered for the
\* identifier 31726262.
WitC11 ==
    /\ Rendered
    /\ pmid = <<"3", "1", "7", "2", "6", "2", "6", "2">>
    /\ reference.issn = <<"1", "-", "2">>
    /\ reference.copyright = <<"C", "_", "X">>
    /\ Len(Lines(bibtex_content)) = 15
    /\ Lines(bibtex_content)[4] = <<" ", " ", " ", "a", "u", "t", "h", "o", "r", " ", "=", " ", "\"", "S", "m", "i", "t", "h", ",", " ", "J", ".", " ", "a", "n", "d", " ", "L", "e", "e", ",", " ", "K", ".", "\"", ",">>

\* C12 (as claimed): the pages field is startPage, '--' and endPage when
\* both are not '', and startPage alone, without '--', in every other case.
CexC12 ==
    Rendered =>
        FieldValue(<<"p", "a", "g", "e", "s">>) =
            IF reference.startPage /= << >> /\ reference.endPage /= << >>
            THEN reference.startPage \o <<"-", "-">> \o reference.endPage
            ELSE reference.startPage

\* The authors of the Reference, each as '<lastName>, <initials>.', joined
\* with ' and '; '' when there are none.
AuthorsJoined ==
    join(<<" ", "a", "n", "d", " ">>,
         [i \in 1..Len(reference.authors) |->
             reference.authors[i].lastName \o <<",", " ">>
             \o reference.authors[i].initials \o <<".">>])

\* C13 (as claimed): the author field is written once and its value is the
\* authors, each as '<lastName>, <initials>.', joined with ' and '; it is
\* '' when there are no authors.
CexC13 ==
    Rendered =>
        /\ Len(FieldLines(<<"a", "u", "t", "h", "o", "r">>)) = 1
        /\ FieldValue(<<"a", "u", "t", "h", "o", "r">>) = AuthorsJoined

\* C13 (amended): the author field is written once and its value is the
\* escaped form of the authors joined as above, so a code point of a name
\* or of the initials that is a key of the Escape Table is replaced; the
\* fore name and the institution are not used, and without authors the
\* value is ''.
InvC13 ==
    Rendered =>
        /\ Len(FieldLines(<<"a", "u", "t", "h", "o", "r">>)) = 1
        /\ FieldValue(<<"a", "u", "t", "h", "o", "r">>) = sanitizeBibtexField(AuthorsJoined)
        /\ reference.authors = << >> => FieldValue(<<"a", "u", "t", "h", "o", "r">>) = << >>

\* Two authors, one with an apostrophe in the last name, were rendered.
WitC13 ==
    /\ Rendered
    /\ Len(reference.authors) = 2
    /\ reference.authors[1].lastName = <<"O", "'", "N", "e", "i", "l">>
    /\ reference.authors[1].foreName = <<"A", "n", "n">>
    /\ reference.authors[2].lastName = <<"S", "m", "i", "t", "h">>
    /\ FieldValue(<<"a", "u", "t", "h", "o", "r">>) = <<"O", "{", "\\", "t", "e", "x", "t", "q", "u", "o", "t", "e", "s", "i", "n", "g", "l", "e", "}", "N", "e", "i", "l", ",", " ", "A", ".", " ", "a", "n", "d", " ", "S", "m", "i", "t", "h", ",", " ", "J", ".">>

\* C14: the journal field is written once; its value is the escaped
\* journalAb whenever journalAb is not '', and the escaped journal only
\* when journalAb is ''.
InvC14 ==
    Rendered =>
        /\ Len(FieldLines(<<"j", "o", "u", "r", "n", "a", "l">>)) = 1
        /\ reference.journalAb /= << >> =>
               FieldValue(<<"j", "o", "u", "r", "n", "a", "l">>) = sanitizeBibtexField(reference.journalAb)
        /\ reference.journalAb = << >> =>
               FieldValue(<<"j", "o", "u", "r", "n", "a", "l">>) = sanitizeBibtexField(reference.journal)

\* A record with both journal names was rendered with the abbreviated one.
WitC14 ==
    /\ Rendered
    /\ reference.journal = <<"N", "a", "t", "u", "r", "e", " ", "&", " ", "C", "o">>
    /\ reference.journalAb = <<"N", "&", "C">>
    /\ FieldValue(<<"j", "o", "u", "r", "n", "a", "l">>) = <<"N", "{", "\\", "&", "}", "C">>

\* C15: the issn field is written, once, exactly when issn is not '', and
\* the copyright field, once, exactly when copyright is not ''; volume,
\* number, pages, year and month are each written exactly once whatever
\* their value, number with the value of issue, and an empty value is
\* written as `""`.
InvC15 ==
    Rendered =>
        /\ Len(FieldLines(<<"i", "s", "s", "n">>)) = IF reference.issn /= << >> THEN 1 ELSE 0
        /\ Len(FieldLines(<<"c", "o", "p", "y", "r", "i", "g", "h", "t">>)) =
               IF reference.copyright /= << >> THEN 1 ELSE 0
        /\ \A name \in {<<"v", "o", "l", "u", "m", "e">>, <<"n", "u", "m", "b", "e", "r">>, <<"p", "a", "g", "e", "s">>, <<"y", "e", "a", "r">>, <<"m", "o", "n", "t", "h">>} :
               Len(FieldLines(name)) = 1
        /\ FieldValue(<<"v", "o", "l", "u", "m", "e">>) = reference.volume
        /\ FieldValue(<<"n", "u", "m", "b", "e", "r">>) = reference.issue
        /\ FieldValue(<<"y", "e", "a", "r">>) = reference.pbyear
        /\ FieldValue(<<"m", "o", "n", "t", "h">>) = reference.pbmonth
        /\ reference.issn /= << >> => FieldValue(<<"i", "s", "s", "n">>) = reference.issn

\* A record without journal and without copyright notice was rendered:
\* volume, number, year and month are empty and written, issn and
\* copyright are not written.
WitC15 ==
    /\ Rendered
    /\ reference.issn = << >> /\ reference.copyright = << >>
    /\ reference.volume = << >> /\ reference.pbyear = << >>
    /\ reference.startPage = <<"1", "0">>
    /\ Contains(bibtex_content,
                <<" ", " ", " ", "v", "o", "l", "u", "m", "e", " ", "=", " ", "\"", "\"", ",", "\n", " ", " ", " ", "n", "u", "m", "b", "e", "r", " ", "=", " ", "\"", "\"", ",", "\n", " ", " ", " ", "p", "a", "g", "e", "s", " ", "=", " ", "\"", "1", "0", "-", "-", "1", "9", "\"", ",", "\n", " ", " ", " ", "y", "e", "a", "r", " ", "=", " ", "\"", "\"", ",", "\n", " ", " ", " ", "m", "o", "n", "t", "h", " ", "=", " ", "\"", "\"", ",", "\n", " ", " ", " ", "a", "b", "s", "t", "r", "a", "c", "t">>)

\* The value of the note field, written as `   note = {<value>}`.
NoteValue ==
    LET line == FieldLines(<<"n", "o", "t", "e">>)[1]
    IN  SubSeq(line, 12, Len(line) - 1)

\* The bracketed hyperlink references of the note.
DoiLink == <<"[", "D", "O", "I", ":", "\\", "h", "r", "e", "f", "{", "h", "t", "t", "p", "s", ":", "/", "/", "d", "x", ".", "d", "o", "i", ".", "o", "r", "g", "/">> \o reference.doi \o <<"}", "{">>
           \o reference.doi \o <<"}", "]">>
PubMedLink == <<"[", "P", "u", "b", "M", "e", "d", ":", "\\", "h", "r", "e", "f", "{", "h", "t", "t", "p", "s", ":", "/", "/", "w", "w", "w", ".", "n", "c", "b", "i", ".", "n", "l", "m", ".", "n", "i", "h", ".", "g", "o", "v", "/", "p", "u", "b", "m", "e", "d", "/">> \o pmid
              \o <<"}", "{">> \o pmid \o <<"}", "]">>

\* C16: the note field holds a bracketed DOI hyperlink exactly when doi is
\* not '', always holds the bracketed PubMed hyperlink of the identifier,
\* and with both the DOI one comes first: the value is the DOI link, a
\* space and the PubMed link, or the PubMed link alone.
InvC16 ==
    Rendered =>
        /\ Len(FieldLines(<<"n", "o", "t", "e">>)) = 1
        /\ IsPrefix(<<" ", " ", " ", "n", "o", "t", "e", " ", "=", " ", "{">>, FieldLines(<<"n", "o", "t", "e">>)[1])
        /\ (reference.doi /= << >>) <=> Contains(NoteValue, <<"[", "D", "O", "I", ":", "\\", "h", "r", "e", "f", "{">>)
        /\ Contains(NoteValue, PubMedLink)
        /\ NoteValue = IF reference.doi /= << >>
                       THEN DoiLink \o <<" ">> \o PubMedLink
                       ELSE PubMedLink

\* A record with a DOI was rendered: the DOI link, then the PubMed link.
WitC16 ==
    /\ Rendered
    /\ pmid = <<"7">>
    /\ reference.doi = <<"1", "0", ".", "2", "/", "y", "_", "z">>
    /\ NoteValue = <<"[", "D", "O", "I", ":", "\\", "h", "r", "e", "f", "{", "h", "t", "t", "p", "s", ":", "/", "/", "d", "x", ".", "d", "o", "i", ".", "o", "r", "g", "/", "1", "0", ".", "2", "/", "y", "_", "z", "}", "{", "1", "0", ".", "2", "/", "y", "_", "z", "}", "]", " ", "[", "P", "u", "b", "M", "e", "d", ":", "\\", "h", "r", "e", "f", "{", "h", "t", "t", "p", "s", ":", "/", "/", "w", "w", "w", ".", "n", "c", "b", "i", ".", "n", "l", "m", ".", "n", "i", "h", ".", "g", "o", "v", "/", "p", "u", "b", "m", "e", "d", "/", "7", "}", "{", "7", "}", "]">>

\* C17: the title field is the one line `   title = "{<escaped title>}",`
\* and the abstract field the one line
\* `   abstract = "{<escaped abstract>}",`, the escaped text being
\* sanitizeBibtexField of the value, in one more pair of braces; an empty
\* value is written as `"{}"`.
InvC17 ==
    Rendered =>
        /\ FieldLines(<<"t", "i", "t", "l", "e">>) =
               <<<<" ", " ", " ", "t", "i", "t", "l", "e", " ", "=", " ", "\"", "{">> \o sanitizeBibtexField(reference.title)
                 \o <<"}", "\"", ",">>>>
        /\ FieldLines(<<"a", "b", "s", "t", "r", "a", "c", "t">>) =
               <<<<" ", " ", " ", "a", "b", "s", "t", "r", "a", "c", "t", " ", "=", " ", "\"", "{">> \o sanitizeBibtexField(reference.abstract)
                 \o <<"}", "\"", ",">>>>
        /\ reference.title = << >> =>
               Contains(bibtex_content, <<"\n", " ", " ", " ", "t", "i", "t", "l", "e", " ", "=", " ", "\"", "{", "}", "\"", ",", "\n">>)
        /\ reference.abstract = << >> =>
               Contains(bibtex_content, <<"\n", " ", " ", " ", "a", "b", "s", "t", "r", "a", "c", "t", " ", "=", " ", "\"", "{", "}", "\"", ",", "\n">>)

\* A title with U+00E9 and an abstract with a tilde were rendered.
WitC17 ==
    /\ Rendered
    /\ reference.title = <<"T", "/", "U+00E9", ".">>
    /\ reference.abstract = <<"A", "b", "~">>
    /\ Lines(bibtex_content)[3] = <<" ", " ", " ", "t", "i", "t", "l", "e", " ", "=", " ", "\"", "{", "T", "/", "{", "\\", "'", "{", "e", "}", "}", ".", "}", "\"", ",">>
    /\ Contains(bibtex_content, <<"\n", " ", " ", " ", "a", "b", "s", "t", "r", "a", "c", "t", " ", "=", " ", "\"", "{", "A", "b", "{", "\\", "t", "e", "x", "t", "a", "s", "c", "i", "i", "t", "i", "l", "d", "e", "}", "}", "\"", ",", "\n">>)

\* The record of the end-to-end scenario was fetched for pmid 31726262.
ScenarioFetched ==
    /\ pmid = <<"3", "1", "7", "2", "6", "2", "6", "2">>
    /\ xml = PubmedArticleSet(<<ScenarioArticle>>)

\* C18: the record with pmid 31726262, title 'A Study', the one author
\* Smith, J, journal Nature, year 2019 and no DOI is parsed and rendered
\* without an error; the text begins with '% 31726262', the header
\* '@Article{pmid31726262,' and the line `   title = "{A Study}",`, holds
\* `author = "Smith, J.",`, and its note holds the PubMed hyperlink and no
\* DOI hyperlink.
InvC18 ==
    (ScenarioFetched /\ pc \notin {"parseXML", "createBibtexContent"}) =>
        /\ Rendered
        /\ reference.title = <<"A", " ", "S", "t", "u", "d", "y">>
        /\ reference.journal = <<"N", "a", "t", "u", "r", "e">>
        /\ reference.pbyear = <<"2", "0", "1", "9">>
        /\ reference.doi = << >>
        /\ IsPrefix(<<"%", " ", "3", "1", "7", "2", "6", "2", "6", "2", "\n", "@", "A", "r", "t", "i", "c", "l", "e", "{", "p", "m", "i", "d", "3", "1", "7", "2", "6", "2", "6", "2", ",", "\n", " ", " ", " ", "t", "i", "t", "l", "e", " ", "=", " ", "\"", "{", "A", " ", "S", "t", "u", "d", "y", "}", "\"", ",", "\n">>,
                    bibtex_content)
        /\ Contains(bibtex_content, <<"a", "u", "t", "h", "o", "r", " ", "=", " ", "\"", "S", "m", "i", "t", "h", ",", " ", "J", ".", "\"", ",">>)
        /\ Contains(bibtex_content, <<" ", " ", " ", "j", "o", "u", "r", "n", "a", "l", " ", "=", " ", "\"", "N", "a", "t", "u", "r", "e", "\"", ",", "\n">>)
        /\ Contains(bibtex_content, <<" ", " ", " ", "y", "e", "a", "r", " ", "=", " ", "\"", "2", "0", "1", "9", "\"", ",", "\n">>)
        /\ NoteValue =
               <<"[", "P", "u", "b", "M", "e", "d", ":", "\\", "h", "r", "e", "f", "{", "h", "t", "t", "p", "s", ":", "/", "/", "w", "w", "w", ".", "n", "c", "b", "i", ".", "n", "l", "m", ".", "n", "i", "h", ".", "g", "o", "v", "/", "p", "u", "b", "m", "e", "d", "/", "3", "1", "7", "2", "6", "2", "6", "2", "}", "{", "3", "1", "7", "2", "6", "2", "6", "2", "}", "]">>
        /\ ~Contains(bibtex_content, <<"D", "O", "I">>)
        /\ ~Contains(bibtex_content, <<"d", "o", "i", ".", "o", "r", "g">>)

\* The scenario ran to its end and the text was written to 'A Study.bib'.
WitC18 ==
    /\ ScenarioFetched
    /\ pc = "done"
    /\ error = ""
    /\ files = {[name |-> <<"A", " ", "S", "t", "u", "d", "y", ".", "b", "i", "b">>, content |-> bibtex_content]}
    /\ Len(Lines(bibtex_content)) = 13

\* One pass of the Escape Table over a text: each code point that is a key
\* replaced by its entry, every other one kept.
EscapedOnce(s) ==
    join(<< >>, [i \in 1..Len(s) |->
                    IF s[i] \in DOMAIN uni2tex THEN uni2tex[s[i]] ELSE <<s[i]>>])

\* The journal name the serializer writes, before escaping.
ChosenJournal ==
    IF reference.journalAb /= << >> THEN reference.journalAb ELSE reference.journal

\* C27: in the rendered text the values of title, author, journal,
\* copyright (when written) and abstract are one pass of the escaper over
\* the title, the joined author text, the chosen journal name, the
\* copyright and the abstract: not the raw text and not a second pass
\* over the escaped one.  The values of volume, number, pages, year, month
\* and issn (when written) and the note are the Reference's texts and the
\* identifier as they are, with no pass of the escaper and no conversion:
\* month is the month text of the record.
InvC27 ==
    Rendered =>
        /\ FieldValue(<<"t", "i", "t", "l", "e">>) = <<"{">> \o EscapedOnce(reference.title) \o <<"}">>
        /\ FieldValue(<<"a", "u", "t", "h", "o", "r">>) = EscapedOnce(AuthorsJoined)
        /\ FieldValue(<<"j", "o", "u", "r", "n", "a", "l">>) = EscapedOnce(ChosenJournal)
        /\ reference.copyright /= << >> =>
               FieldValue(<<"c", "o", "p", "y", "r", "i", "g", "h", "t">>) = EscapedOnce(reference.copyright)
        /\ FieldValue(<<"a", "b", "s", "t", "r", "a", "c", "t">>) = <<"{">> \o EscapedOnce(reference.abstract) \o <<"}">>
        /\ FieldValue(<<"v", "o", "l", "u", "m", "e">>) = reference.volume
        /\ FieldValue(<<"n", "u", "m", "b", "e", "r">>) = reference.issue
        /\ FieldValue(<<"p", "a", "g", "e", "s">>) =
               IF reference.endPage /= << >>
               THEN reference.startPage \o <<"-", "-">> \o reference.endPage
               ELSE reference.startPage
        /\ FieldValue(<<"y", "e", "a", "r">>) = reference.pbyear
        /\ FieldValue(<<"m", "o", "n", "t", "h">>) = reference.pbmonth
        /\ reference.issn /= << >> => FieldValue(<<"i", "s", "s", "n">>) = reference.issn
        /\ NoteValue = IF reference.doi /= << >>
                       THEN DoiLink \o <<" ">> \o PubMedLink
                       ELSE PubMedLink

\* A record was rendered whose journal name, copyright and abstract each
\* have a code point of the Escape Table, escaped once, and whose DOI has
\* one too, written as it is; the month is the text Nov.
WitC27 ==
    /\ Rendered
    /\ reference.journalAb = <<"N", "&", "C">>
    /\ reference.copyright = <<"C", "_", "X">>
    /\ reference.doi = <<"1", "0", ".", "2", "/", "y", "_", "z">>
    /\ reference.pbmonth = <<"N", "o", "v">>
    /\ FieldValue(<<"j", "o", "u", "r", "n", "a", "l">>) = <<"N", "{", "\\", "&", "}", "C">>
    /\ EscapedOnce(<<"N", "{", "\\", "&", "}", "C">>) /= <<"N", "{", "\\", "&", "}", "C">>
    /\ FieldValue(<<"c", "o", "p", "y", "r", "i", "g", "h", "t">>) = <<"C", "{", "\\", "_", "}", "X">>
    /\ FieldValue(<<"a", "b", "s", "t", "r", "a", "c", "t">>) = <<"{", "A", "b", "{", "\\", "t", "e", "x", "t", "a", "s", "c", "i", "i", "t", "i", "l", "d", "e", "}", "}">>
    /\ EscapedOnce(reference.doi) /= reference.doi
    /\ Contains(NoteValue, <<"{", "1", "0", ".", "2", "/", "y", "_", "z", "}">>)
    /\ FieldValue(<<"m", "o", "n", "t", "h">>) = <<"N", "o", "v">>

----------------------------------------------------------------------------
(* Properties of pmid2bibtex and main, checked under Spec *)

\* A step of the try block of pmid2bibtex raised.
FailedRun == pmid /= Idle /\ error /= ""

\* The messages of createFile and the one that follows its call.
FileMessages == {"Error opening file", "Error writing to file", "File was created."}

\* The place of each position in the order of the statements.
Rank ==
    ("main" :> 0) @@ ("pmid2bibtex" :> 1) @@ ("fetchXML" :> 2) @@
    ("parseXML" :> 3) @@ ("createBibtexContent" :> 4) @@
    ("sanitizeFileName" :> 5) @@ ("createFile" :> 6) @@ ("print" :> 7) @@
    ("except" :> 8) @@ ("fetchBibtex" :> 1) @@ ("getTitle" :> 2) @@
    ("doi sanitizeFileName" :> 3) @@ ("doi createFile" :> 4) @@
    ("doi print" :> 5) @@ ("doi except" :> 6) @@ ("done" :> 9) @@
    ("raised" :> 9)

CexC20 ==
    /\ pc /= "raised"
    /\ (pc = "done" /\ error /= "") =>
           \E i \in 1..Len(stdout) : stdout[i].msg = "Error processing"

\* The decimal digits 0 to 9, and the texts made of them only.
DecimalDigits == {"0", "1", "2", "3", "4", "5", "6", "7", "8", "9"}

AllDecimal(s) == Len(s) > 0 /\ \A i \in 1..Len(s) : s[i] \in DecimalDigits

\* The one positional argument, stripped.
PaperId == strip(argv[2])

\* Neither doi2bibtex nor pmid2bibtex was called, and main has returned
\* after a message.
Rejected ==
    /\ pmid = Idle /\ doi = Idle
    /\ pc = "done"
    /\ Len(stdout) >= 1
    /\ xml = NotFetched /\ bibtex_content = Idle /\ files = {}

\* C21 (as claimed): once main has routed, an argument with a '/' went to
\* doi2bibtex (and not to pmid2bibtex), also when all its other code points
\* are digits; an argument of digits only went to pmid2bibtex (and not to
\* doi2bibtex); every other argument, and every number of arguments other
\* than one, was refused with a message and reached neither.
CexC21 ==
    pc /= "main" =>
        IF Len(argv) /= 2 THEN Rejected
        ELSE IF \E i \in 1..Len(PaperId) : PaperId[i] = "/"
        THEN doi = PaperId /\ pmid = Idle
        ELSE IF AllDecimal(PaperId)
        THEN pmid = PaperId /\ doi = Idle
        ELSE Rejected

\* A file error, or none, was printed by createFile, and then the message
\* that follows the call.
Converted ==
    /\ pc = "done"
    /\ Len(stdout) >= 1
    /\ stdout[Len(stdout)] = Message("File was created.", filename, "")

\* The calls that made the file name and the text of the PubMed path.
PubmedFileName == sanitizeFileName(reference.title)
PubmedContent == createBibtexContent(reference, pmid)

\* The calls that made the file name of the DOI path.
DoiTitle == getTitle(bibtex_content)
DoiFileName == sanitizeFileName(DoiTitle.val)

\* C22: a conversion that succeeds hands one file to createFile, once, when
\* the BibTeX text is complete.  On the PubMed path its name is
\* sanitizeFileName(reference.title) + '.bib' and its content is what
\* createBibtexContent returned; on the DOI path its name is
\* sanitizeFileName(getTitle(text)) + '.bib' and its content is the fetched
\* text as it came, with no Reference extracted and nothing escaped.  The
\* set of files changes only in the step that calls createFile, from the
\* empty set, with the name and the text left as they were.
InvC22 ==
    /\ [](/\ (pc \in {"createFile", "print"} \/ (Converted /\ pmid /= Idle)) =>
              /\ PubmedFileName.exc = "" /\ PubmedContent.exc = ""
              /\ filename = PubmedFileName.val \o <<".", "b", "i", "b">>
              /\ bibtex_content = PubmedContent.val
              /\ doi = Idle
          /\ (pc \in {"doi createFile", "doi print"} \/ (Converted /\ doi /= Idle)) =>
              /\ bibtex_content \in BibtexTexts
              /\ DoiTitle.exc = "" /\ DoiFileName.exc = ""
              /\ title = DoiTitle.val
              /\ filename = DoiFileName.val \o <<".", "b", "i", "b">>
              /\ reference = NoReference /\ xml = NotFetched /\ pmid = Idle
          /\ (pc \in {"print", "doi print"} \/ Converted) =>
              files \subseteq {[name |-> filename, content |-> bibtex_content],
                               [name |-> filename, content |-> << >>]}
          /\ (Converted /\ Len(stdout) = 1) =>
              files = {[name |-> filename, content |-> bibtex_content]}
          /\ ~(pc \in {"print", "doi print"} \/ Converted) => files = {})
    /\ [][/\ files' /= files =>
              /\ pc \in {"createFile", "doi createFile"}
              /\ files = {}
              /\ filename' = filename /\ bibtex_content' = bibtex_content
          /\ pc \in {"createFile", "doi createFile"} =>
              pc' \in {"print", "doi print"}]_vars

\* The DOI path wrote the fetched text, braces and all, under the name made
\* from its title, and reported it.
WitC22 ==
    /\ Converted
    /\ doi = <<"1", "0", ".", "1", "/", "x">>
    /\ bibtex_content = <<"@", "a", "{", "k", ",", "\n", " ", "t", "i", "t", "l", "e", " ", "=", " ", "{", "A", " ", "{", "B", "}", " ", "S", "t", "u", "d", "y", "}", ",", "\n", " ", "y", "e", "a", "r", " ", "=", " ", "2", "0", "1", "9", "\n", "}">>
    /\ sanitizeBibtexField(bibtex_content) /= bibtex_content
    /\ files = {[name |-> <<"A", " ", "B", " ", "S", "t", "u", "d", "y", ".", "b", "i", "b">>, content |-> bibtex_content]}
    /\ stdout = <<Message("File was created.", <<"A", " ", "B", " ", "S", "t", "u", "d", "y", ".", "b", "i", "b">>, "")>>

\* C23 (as claimed): for a record with no ArticleTitle node, parseXML
\* returns a Reference whose title is '', and when the text has been
\* rendered from it the run goes on without an exception to createFile,
\* with the file name '.bib' made from the empty title.
CexC23 ==
    (/\ pc = "done"
     /\ ParsedDocument /\ RequiredPresent
     /\ find(FirstArticleElem, "ArticleTitle") = NoneElem
     /\ reference /= NoReference) =>
        /\ reference.title = << >>
        /\ bibtex_content /= Idle =>
               /\ error = ""
               /\ filename = <<".", "b", "i", "b">>
               /\ stdout[Len(stdout)] = Message("File was created.", <<".", "b", "i", "b">>, "")

\* C24 (as claimed): every field of a Reference that parseXML returns, and
\* every field of each of its authors, is a str, '' when the node is absent
\* or has no text, never None; createBibtexContent renders every such
\* Reference without raising.
CexC24 ==
    (ParsedDocument /\ reference /= NoReference) =>
        /\ \A f \in DOMAIN reference \ {"authors"} : IsStr(reference[f])
        /\ \A i \in 1..Len(reference.authors) :
               \A f \in DOMAIN reference.authors[i] :
                   IsStr(reference.authors[i][f])
        /\ createBibtexContent(reference, pmid).exc = ""

\* The identifiers pmid2bibtex lets through.
Acceptable(p) == Len(p) >= 1 /\ Len(p) <= 8 /\ p[1] /= "0"

\* The two messages pmid2bibtex refuses an identifier with.
Refusals ==
    {Message("Wrong identifer length, it must have 1 to 8 digits", << >>, ""),
     Message("The identifier can not start with 0", << >>, "")}

\* C25: once pmid2bibtex is past its checks, an identifier that has fewer
\* than 1 or more than 8 characters, or that starts with '0', has been
\* refused: the run is over with the one message of the broken rule, and
\* fetchXML, parseXML, createBibtexContent and createFile were not called
\* (nothing fetched, no Reference, no text, no file name, no file).  An
\* identifier of 1 to 8 characters that does not start with '0' is not
\* refused, and only such an identifier reaches fetchXML.
InvC25 ==
    (pmid /= Idle /\ pc /= "pmid2bibtex") =>
        IF Acceptable(pmid)
        THEN \A i \in 1..Len(stdout) : stdout[i] \notin Refusals
        ELSE /\ pc = "done"
             /\ stdout = <<IF Len(pmid) < 1 \/ Len(pmid) > 8
                           THEN Message("Wrong identifer length, it must have 1 to 8 digits",
                                        << >>, "")
                           ELSE Message("The identifier can not start with 0", << >>, "")>>
             /\ xml = NotFetched /\ reference = NoReference
             /\ bibtex_content = Idle /\ filename = Idle /\ files = {}
             /\ error = ""

\* The identifier 012 was refused for its first digit, with nothing fetched
\* and nothing written.
WitC25 ==
    /\ pc = "done"
    /\ pmid = <<"0", "1", "2">>
    /\ stdout = <<Message("The identifier can not start with 0", << >>, "")>>
    /\ xml = NotFetched /\ files = {}

\* The lines of a BibTeX text that are the title field: after the
\* indentation, 'title = {', the rendered title T, and '},'.
TitleLines(s) ==
    SelectSeq(Lines(s), LAMBDA line :
        /\ IsPrefix(<<"t", "i", "t", "l", "e", " ", "=", " ", "{">>, lstrip(line, {" "}))
        /\ IsSuffix(<<"}", ",">>, line))

\* The rendered title T of the first title line, without its inner braces.
RenderedTitle(s) ==
    LET field == lstrip(TitleLines(s)[1], {" "})
    IN  translate(SubSeq(field, 10, Len(field) - 2),
                  ("{" :> << >>) @@ ("}" :> << >>))

\* C26 (as claimed): on the DOI path, for a fetched text with a line
\* `title = {<T>},`, getTitle returns T without its inner braces, whatever
\* letters T begins and ends with, and it reads T from the title field,
\* not from another field whose name ends in 'title'.
CexC26 ==
    (/\ doi /= Idle
     /\ pc \notin {"main", "fetchBibtex", "getTitle"}
     /\ IsStr(bibtex_content)
     /\ Len(TitleLines(bibtex_content)) >= 1) =>
        /\ getTitle(bibtex_content).exc = ""
        /\ title = RenderedTitle(bibtex_content)

\* C30 (as claimed): on both paths the message 'File "<name>" was
\* created.' is printed only when createFile opened the file and wrote the
\* text: the file of that name is there with the text as its content, and
\* no message of a file error was printed in the same run.
CexC30 ==
    \A i \in 1..Len(stdout) :
        stdout[i].msg = "File was created." =>
            /\ [name |-> stdout[i].arg, content |-> bibtex_content] \in files
            /\ \A j \in 1..Len(stdout) :
                   stdout[j].msg \notin {"Error opening file", "Error writing to file"}

----------------------------------------------------------------------------
(* Properties of the Reference objects, checked under SpecLibrary *)

\* C29: a Reference is read-only once parseXML has returned it: no later
\* call, of createBibtexContent, of sanitizeFileName or of parseXML for
\* another document, changes an attribute of a Reference returned before,
\* its authors list or an author in it.  No two References have the same
\* authors list, and two texts rendered from the same Reference are the
\* same text, whatever was called in between.
InvC29 ==
    /\ [](/\ \A i, j \in 1..Len(references) :
                 i /= j => references[i].authors /= references[j].authors
          /\ \A k, l \in 1..Len(contents) :
                 contents[k].reference = contents[l].reference =>
                     contents[k].text = contents[l].text)
    /\ [][\A i \in 1..Len(references) :
              /\ references'[i] = references[i]
              /\ lists'[references[i].authors] = lists[references[i].authors]]_vars

\* The first Reference was rendered, a record with other authors was
\* parsed, the first Reference was rendered again, and the file name of
\* its title was made.
WitC29 ==
    /\ Len(references) = 2
    /\ Len(lists[references[1].authors]) = 2
    /\ Len(lists[references[2].authors]) = 1
    /\ Len(contents) = 2
    /\ contents[1].reference = 1 /\ contents[1].calls = 1
    /\ contents[2].reference = 1 /\ contents[2].calls = 2
    /\ references[1].title = <<"T", "/", "U+00E9", ".">>
    /\ fileName = Return(<<"T", " ", "U+00E9">>)

----------------------------------------------------------------------------
(* Properties of sanitizeBibtexField, checked under SpecEscape *)

\* f(c): the Escape Table entry of a code point that is a key, the code
\* point itself otherwise.
EscapeOf(c) == IF c \in DOMAIN uni2tex THEN uni2tex[c] ELSE <<c>>

\* The length of the escaped form of the first n code points of s.
RECURSIVE EscapedLen(_, _)
EscapedLen(s, n) ==
    IF n = 0 THEN 0 ELSE EscapedLen(s, n - 1) + Len(EscapeOf(s[n]))

\* C6: the result of sanitizeBibtexField is the concatenation, in input
\* order, of f(c) over the code points c of the text: it is as long as the
\* f(c) together, and f of the i-th code point stands right after the
\* escaped form of the first i-1; U+00E9 alone gives {\'{e}}.
InvC6 ==
    pc \in {"escape again", "escaped"} =>
        /\ Len(escaped.whole) = EscapedLen(text, Len(text))
        /\ \A i \in 1..Len(text) :
               SubSeq(escaped.whole, EscapedLen(text, i - 1) + 1,
                      EscapedLen(text, i)) = EscapeOf(text[i])
        /\ text = <<"U+00E9">> => escaped.whole = <<"{", "\\", "'", "{", "e", "}", "}">>

\* A text of an unmapped and a mapped code point was escaped.
WitC6 ==
    /\ pc = "escape again"
    /\ text = <<"a", "U+00E9">>
    /\ escaped.whole = <<"a", "{", "\\", "'", "{", "e", "}", "}">>

\* C7: escape(a + b) = escape(a) + escape(b) for the two parts a, b of
\* every text, whatever was escaped before; in particular the call on the
\* whole text returns what the earlier call on the same text returned.
InvC7 ==
    pc \in {"escape again", "escaped"} =>
        /\ escaped.whole = escaped.left \o escaped.right
        /\ cut = Len(text) => escaped.whole = escaped.left
        /\ cut = 0 => escaped.whole = escaped.right

\* A base letter and a combining accent were escaped apart and together.
WitC7 ==
    /\ pc = "escape again"
    /\ text = <<"a", "U+0301">>
    /\ cut = 1
    /\ escaped.left = <<"a">>
    /\ escaped.right = <<"{", "\\", "'", "}">>
    /\ escaped.whole = <<"a", "{", "\\", "'", "}">>

\* C8: when a substitution puts a backslash or a brace into the escaped
\* text, escaping the escaped text again gives a different text.
InvC8 ==
    (/\ pc = "escaped"
     /\ \E i \in 1..Len(text) :
            /\ text[i] \in DOMAIN uni2tex
            /\ \E j \in 1..Len(uni2tex[text[i]]) :
                   uni2tex[text[i]][j] \in {"\\", "{", "}"}) =>
        escaped.again /= escaped.whole

\* The escaped form of U+00E9 was escaped again.
WitC8 ==
    /\ pc = "escaped"
    /\ text = <<"U+00E9">>
    /\ escaped.whole = <<"{", "\\", "'", "{", "e", "}", "}">>
    /\ escaped.again =
           <<"$", "\\", "l", "b", "r", "a", "c", "e", "$", "{", "\\", "t", "e", "x", "t", "b", "a", "c", "k", "s", "l", "a", "s", "h", "}", "{", "\\", "t", "e", "x", "t", "q", "u", "o", "t", "e", "s", "i", "n", "g", "l", "e", "}", "$", "\\", "l", "b", "r", "a", "c", "e", "$", "e", "$", "\\", "r", "b", "r", "a", "c", "e", "$", "$", "\\", "r", "b", "r", "a", "c", "e", "$">>

----------------------------------------------------------------------------
(* Properties of sanitizeFileName, checked under SpecFileName *)

\* The text without { } [ ] " ? and with a space for every /.
Cleaned(s) ==
    LET kept == SelectSeq(s, LAMBDA c : c \notin {"{", "}", "[", "]", "\"", "?"})
    IN  [i \in 1..Len(kept) |-> IF kept[i] = "/" THEN " " ELSE kept[i]]

\* s without one trailing '.', if it ends with one.
WithoutOneDot(s) ==
    IF Len(s) > 0 /\ s[Len(s)] = "." THEN SubSeq(s, 1, Len(s) - 1) ELSE s

\* C9 (as claimed): for every non-empty text sanitizeFileName returns the
\* text with { } [ ] " ? removed, every / replaced by a space, and then one
\* trailing '.' removed.
CexC9 ==
    (pc = "sanitized" /\ text /= << >>) =>
        fileName = Return(WithoutOneDot(Cleaned(text)))

\* C10 (as claimed): sanitizeFileName returns a string for every text,
\* also for '', '.' and a text of removed characters only.
CexC10 == pc = "sanitized" => fileName.exc = ""

=============================================================================
